---- MODULE Spec2Model ----
(***************************************************************************)
(* Lina4Life/Scroller: the link validator (validate_url) and the URL       *)
(* repair engine (attempt_url_fix) of src/Scroller_Deploy/app.py.          *)
(*                                                                         *)
(* A Python str is a sequence of one-character strings, so that the        *)
(* rewrite strategies (replace, split, rstrip, startswith ...) are         *)
(* computed character by character, as the code computes them.             *)
(***************************************************************************)
EXTENDS Integers, Sequences, FiniteSets, TLC

VARIABLES
    pc,            \* where the running attempt_url_fix call is ("idle": no call)
    original_url,  \* attempt_url_fix: its argument
    fix_result,    \* attempt_url_fix: the fix_result dictionary
    i,             \* attempt_url_fix: 1-based position of the strategy loop
    domain_fixes,  \* attempt_url_fix: the domain_fixes list
    j,             \* attempt_url_fix: 1-based position of the domain loop
    calls,         \* observer: the validate_url calls of the running repair
    vcall,         \* observer: the most recent validate_url call and its return
    batch,         \* create_url_fix_log: the locals of the running call
    analysis,      \* create_analysis_log: the locals of its URL validation pass
    search,        \* SubventionSearcher.search_all: the locals of the running call
    export         \* save_results_to_excel*: the locals that build the filename

vars == <<pc, original_url, fix_result, i, domain_fixes, j, calls, vcall,
          batch, analysis, search, export>>

\* Python's None
None == "None"

(***************************************************************************)
(* String literals of the code.                                            *)
(***************************************************************************)
\* "http://"
S_http ==
    <<"h", "t", "t", "p", ":", "/", "/">>

\* "https://"
S_https ==
    <<"h", "t", "t", "p", "s", ":", "/", "/">>

\* "htpp://"
S_htpp ==
    <<"h", "t", "p", "p", ":", "/", "/">>

\* "htpps://"
S_htpps ==
    <<"h", "t", "p", "p", "s", ":", "/", "/">>

\* "www."
S_www ==
    <<"w", "w", "w", ".">>

\* "www.www."
S_wwwwww ==
    <<"w", "w", "w", ".", "w", "w", "w", ".">>

\* "://"
S_sep ==
    <<":", "/", "/">>

\* "://www."
S_sepwww ==
    <<":", "/", "/", "w", "w", "w", ".">>

\* "/"
S_slash ==
    <<"/">>

\* "//"
S_slash2 ==
    <<"/", "/">>

\* "///"
S_slash3 ==
    <<"/", "/", "/">>

\* "////"
S_slash4 ==
    <<"/", "/", "/", "/">>

\* "?"
S_query ==
    <<"?">>

\* "#"
S_hash ==
    <<"#">>

\* "["
S_lbracket ==
    <<"[">>

\* "]"
S_rbracket ==
    <<"]">>

\* "ec.europa.eu"
S_ec_europa_eu ==
    <<"e", "c", ".", "e", "u", "r", "o", "p", "a", ".", "e", "u">>

\* "/calls-for-proposals"
S_calls ==
    <<"/", "c", "a", "l", "l", "s", "-", "f", "o", "r", "-", "p", "r", "o", "p", "o", "s",
      "a", "l", "s">>

\* "/regional_policy"
S_regional ==
    <<"/", "r", "e", "g", "i", "o", "n", "a", "l", "_", "p", "o", "l", "i", "c", "y">>

\* "culture.gouv.fr"
S_culture_gouv_fr ==
    <<"c", "u", "l", "t", "u", "r", "e", ".", "g", "o", "u", "v", ".", "f", "r">>

\* "artscouncil"
S_artscouncil ==
    <<"a", "r", "t", "s", "c", "o", "u", "n", "c", "i", "l">>

\* ".org.uk"
S_org_uk ==
    <<".", "o", "r", "g", ".", "u", "k">>

\* "kulturfond"
S_kulturfond ==
    <<"k", "u", "l", "t", "u", "r", "f", "o", "n", "d">>

\* "kultuur"
S_kultuur ==
    <<"k", "u", "l", "t", "u", "u", "r">>

\* "https://ec.europa.eu/info/funding-tenders/opportunities/portal/screen/home"
Fix_ec_portal ==
    <<"h", "t", "t", "p", "s", ":", "/", "/", "e", "c", ".", "e", "u", "r", "o", "p", "a",
      ".", "e", "u", "/", "i", "n", "f", "o", "/", "f", "u", "n", "d", "i", "n", "g", "-",
      "t", "e", "n", "d", "e", "r", "s", "/", "o", "p", "p", "o", "r", "t", "u", "n", "i",
      "t", "i", "e", "s", "/", "p", "o", "r", "t", "a", "l", "/", "s", "c", "r", "e", "e",
      "n", "/", "h", "o", "m", "e">>

\* "https://ec.europa.eu/regional_policy/funding_en"
Fix_ec_regional ==
    <<"h", "t", "t", "p", "s", ":", "/", "/", "e", "c", ".", "e", "u", "r", "o", "p", "a",
      ".", "e", "u", "/", "r", "e", "g", "i", "o", "n", "a", "l", "_", "p", "o", "l", "i",
      "c", "y", "/", "f", "u", "n", "d", "i", "n", "g", "_", "e", "n">>

\* "https://www.culture.gouv.fr/Aides-demarches"
Fix_culture_aides ==
    <<"h", "t", "t", "p", "s", ":", "/", "/", "w", "w", "w", ".", "c", "u", "l", "t", "u",
      "r", "e", ".", "g", "o", "u", "v", ".", "f", "r", "/", "A", "i", "d", "e", "s", "-",
      "d", "e", "m", "a", "r", "c", "h", "e", "s">>

\* "https://www.culture.gouv.fr/Thematiques/Soutien-a-la-creation-artistique"
Fix_culture_creation ==
    <<"h", "t", "t", "p", "s", ":", "/", "/", "w", "w", "w", ".", "c", "u", "l", "t", "u",
      "r", "e", ".", "g", "o", "u", "v", ".", "f", "r", "/", "T", "h", "e", "m", "a", "t",
      "i", "q", "u", "e", "s", "/", "S", "o", "u", "t", "i", "e", "n", "-", "a", "-", "l",
      "a", "-", "c", "r", "e", "a", "t", "i", "o", "n", "-", "a", "r", "t", "i", "s", "t",
      "i", "q", "u", "e">>

\* "https://www.artscouncil.org.uk/funding"
Fix_artscouncil ==
    <<"h", "t", "t", "p", "s", ":", "/", "/", "w", "w", "w", ".", "a", "r", "t", "s", "c",
      "o", "u", "n", "c", "i", "l", ".", "o", "r", "g", ".", "u", "k", "/", "f", "u", "n",
      "d", "i", "n", "g">>

\* "https://www.nordiskkulturfond.org/en/funding"
Fix_nordisk ==
    <<"h", "t", "t", "p", "s", ":", "/", "/", "w", "w", "w", ".", "n", "o", "r", "d", "i",
      "s", "k", "k", "u", "l", "t", "u", "r", "f", "o", "n", "d", ".", "o", "r", "g", "/",
      "e", "n", "/", "f", "u", "n", "d", "i", "n", "g">>

\* "htpp://exemple.org/page?x=1"
Url_typo ==
    <<"h", "t", "p", "p", ":", "/", "/", "e", "x", "e", "m", "p", "l", "e", ".", "o", "r",
      "g", "/", "p", "a", "g", "e", "?", "x", "=", "1">>

\* "http://exemple.org/page?x=1"
Url_typo_fixed ==
    <<"h", "t", "t", "p", ":", "/", "/", "e", "x", "e", "m", "p", "l", "e", ".", "o", "r",
      "g", "/", "p", "a", "g", "e", "?", "x", "=", "1">>

\* "http://www.culture.gouv.fr/Aides-demarches"
Url_culture ==
    <<"h", "t", "t", "p", ":", "/", "/", "w", "w", "w", ".", "c", "u", "l", "t", "u", "r",
      "e", ".", "g", "o", "u", "v", ".", "f", "r", "/", "A", "i", "d", "e", "s", "-", "d",
      "e", "m", "a", "r", "c", "h", "e", "s">>

\* "ftp://old.example"
Url_ftp ==
    <<"f", "t", "p", ":", "/", "/", "o", "l", "d", ".", "e", "x", "a", "m", "p", "l", "e">>

\* "https://kulturfond.artscouncil.org.uk.culture.gouv.fr.ec.europa.eu/calls-for-proposals/regional_policy/"
Url_multi ==
    <<"h", "t", "t", "p", "s", ":", "/", "/", "k", "u", "l", "t", "u", "r", "f", "o", "n",
      "d", ".", "a", "r", "t", "s", "c", "o", "u", "n", "c", "i", "l", ".", "o", "r", "g",
      ".", "u", "k", ".", "c", "u", "l", "t", "u", "r", "e", ".", "g", "o", "u", "v", ".",
      "f", "r", ".", "e", "c", ".", "e", "u", "r", "o", "p", "a", ".", "e", "u", "/", "c",
      "a", "l", "l", "s", "-", "f", "o", "r", "-", "p", "r", "o", "p", "o", "s", "a", "l",
      "s", "/", "r", "e", "g", "i", "o", "n", "a", "l", "_", "p", "o", "l", "i", "c", "y",
      "/">>

\* "http://[kultuur/a///b"
Url_bracket ==
    <<"h", "t", "t", "p", ":", "/", "/", "[", "k", "u", "l", "t", "u", "u", "r", "/", "a",
      "/", "/", "/", "b">>

\* "https://WWW.ArtsCouncil.org.uk/x#y"
Url_upper ==
    <<"h", "t", "t", "p", "s", ":", "/", "/", "W", "W", "W", ".", "A", "r", "t", "s", "C",
      "o", "u", "n", "c", "i", "l", ".", "o", "r", "g", ".", "u", "k", "/", "x", "#", "y">>

\* "www.www.kultuur.ee"
Url_noscheme ==
    <<"w", "w", "w", ".", "w", "w", "w", ".", "k", "u", "l", "t", "u", "u", "r", ".", "e",
      "e">>

\* "http://a.www.kulturfond.dk/?q=1/"
Url_nordic ==
    <<"h", "t", "t", "p", ":", "/", "/", "a", ".", "w", "w", "w", ".", "k", "u", "l", "t",
      "u", "r", "f", "o", "n", "d", ".", "d", "k", "/", "?", "q", "=", "1", "/">>

\* ""
Url_empty ==
    <<>>

\* "htpps://www.www.a.b////c"
Url_typos2 ==
    <<"h", "t", "p", "p", "s", ":", "/", "/", "w", "w", "w", ".", "w", "w", "w", ".", "a",
      ".", "b", "/", "/", "/", "/", "c">>

(***************************************************************************)
(* str methods, as CPython computes them.                                  *)
(***************************************************************************)
\* s.startswith(p)
StartsWith(s, p) ==
    /\ Len(p) <= Len(s)
    /\ SubSeq(s, 1, Len(p)) = p

\* s.endswith(p)
EndsWith(s, p) ==
    /\ Len(p) <= Len(s)
    /\ SubSeq(s, Len(s) - Len(p) + 1, Len(s)) = p

\* sub in s
Contains(s, sub) ==
    \E k \in 1..(Len(s) - Len(sub) + 1) : SubSeq(s, k, k + Len(sub) - 1) = sub

\* s.find(sub) + 1: 1-based position of the first occurrence of sub, 0 when none
Find(s, sub) ==
    IF Contains(s, sub)
    THEN CHOOSE k \in 1..(Len(s) - Len(sub) + 1) :
             /\ SubSeq(s, k, k + Len(sub) - 1) = sub
             /\ \A m \in 1..(k - 1) : SubSeq(s, m, m + Len(sub) - 1) # sub
    ELSE 0

\* s.replace(old, new): every non-overlapping occurrence, leftmost first
RECURSIVE Replace(_, _, _)
Replace(s, old, new) ==
    IF Find(s, old) = 0 THEN s
    ELSE SubSeq(s, 1, Find(s, old) - 1) \o new
         \o Replace(SubSeq(s, Find(s, old) + Len(old), Len(s)), old, new)

\* s.count(sub): the number of non-overlapping occurrences
RECURSIVE Count(_, _)
Count(s, sub) ==
    IF Find(s, sub) = 0 THEN 0
    ELSE 1 + Count(SubSeq(s, Find(s, sub) + Len(sub), Len(s)), sub)

\* s.split(sep)[0]: what precedes the first sep (all of s when there is none)
SplitFirst(s, sep) ==
    IF Find(s, sep) = 0 THEN s ELSE SubSeq(s, 1, Find(s, sep) - 1)

\* s.rstrip(c): every trailing character c removed
RStrip(s, c) ==
    IF \E k \in 1..Len(s) : s[k] # c
    THEN SubSeq(s, 1, CHOOSE k \in 1..Len(s) :
                          /\ s[k] # c
                          /\ \A m \in (k + 1)..Len(s) : s[m] = c)
    ELSE <<>>

\* the upper-case letters and their lower-case forms
UpperLetters ==
    <<"A", "B", "C", "D", "E", "F", "G", "H", "I", "J", "K", "L", "M",
      "N", "O", "P", "Q", "R", "S", "T", "U", "V", "W", "X", "Y", "Z">>

LowerLetters ==
    <<"a", "b", "c", "d", "e", "f", "g", "h", "i", "j", "k", "l", "m",
      "n", "o", "p", "q", "r", "s", "t", "u", "v", "w", "x", "y", "z">>

LowerChar(c) ==
    IF \E k \in 1..26 : UpperLetters[k] = c
    THEN LowerLetters[CHOOSE k \in 1..26 : UpperLetters[k] = c]
    ELSE c

\* s.lower()
Lower(s) == [k \in 1..Len(s) |-> LowerChar(s[k])]

(***************************************************************************)
(* urllib.parse.urlparse(url).netloc, as attempt_url_fix uses it.          *)
(***************************************************************************)
Digits == {"0", "1", "2", "3", "4", "5", "6", "7", "8", "9"}

IsAlpha(c) ==
    \E k \in 1..26 : c = UpperLetters[k] \/ c = LowerLetters[k]

\* the characters a URL scheme is made of
IsSchemeChar(c) == IsAlpha(c) \/ c \in Digits \/ c \in {"+", "-", "."}

\* 1-based position of the first character of s that is in cs, 0 when none
FindFirst(s, cs) ==
    IF \E k \in 1..Len(s) : s[k] \in cs
    THEN CHOOSE k \in 1..Len(s) :
             /\ s[k] \in cs
             /\ \A m \in 1..(k - 1) : s[m] \notin cs
    ELSE 0

\* url with its "scheme:" prefix removed, when it has one
AfterScheme(url) ==
    LET c == FindFirst(url, {":"})
    IN  IF /\ c > 1
           /\ IsAlpha(url[1])
           /\ \A k \in 1..(c - 1) : IsSchemeChar(url[k])
        THEN SubSeq(url, c + 1, Len(url))
        ELSE url

\* urlparse(url).netloc: ok is FALSE when urlparse raises ValueError
UrlNetloc(url) ==
    LET rest == AfterScheme(url)
        tail == SubSeq(rest, 3, Len(rest))
        d == FindFirst(tail, {"/", "?", "#"})
        netloc == IF StartsWith(rest, S_slash2)
                  THEN IF d = 0 THEN tail ELSE SubSeq(tail, 1, d - 1)
                  ELSE <<>>
        open == Contains(netloc, S_lbracket)
        close == Contains(netloc, S_rbracket)
    IN  [ok |-> (open <=> close), netloc |-> netloc]

(***************************************************************************)
(* validate_url                                                            *)
(***************************************************************************)
\* status_code before any response was received (None in the code)
NoStatusCode == 0

\* validate_url's default timeout, and the timeout attempt_url_fix passes
DefaultTimeout == 10

FixTimeout == 5

\* What the HTTP GET of one validate_url call does: it returns a response
\* (status code; whether the body parses, its <title> and whether it holds a
\* funding keyword) or raises the exception class exc.
ResponseOutcome(code, parse, title, kw) ==
    [kind |-> "response", code |-> code, exc |-> IF parse = "ok" THEN "" ELSE "ParserError",
     parse |-> parse, title |-> title, kw |-> kw]

ExceptionOutcome(exc) ==
    [kind |-> "exception", code |-> NoStatusCode, exc |-> exc,
     parse |-> "ok", title |-> None, kw |-> FALSE]

\* The classes an exception raised by requests.get is an instance of
\* (requests.exceptions: ConnectTimeout derives from ConnectionError and Timeout).
ExcBases(exc) ==
    CASE exc = "ReadTimeout" -> {"ReadTimeout", "Timeout", "RequestException", "Exception"}
      [] exc = "ConnectTimeout" ->
             {"ConnectTimeout", "ConnectionError", "Timeout", "RequestException", "Exception"}
      [] exc = "ConnectionError" -> {"ConnectionError", "RequestException", "Exception"}
      [] exc = "SSLError" -> {"SSLError", "ConnectionError", "RequestException", "Exception"}
      [] exc = "TooManyRedirects" -> {"TooManyRedirects", "RequestException", "Exception"}
      [] exc = "InvalidURL" -> {"InvalidURL", "RequestException", "ValueError", "Exception"}
      [] exc = "HTTPError" -> {"HTTPError", "RequestException", "Exception"}
      [] exc = "JSONDecodeError" ->
             {"JSONDecodeError", "InvalidJSONError", "RequestException", "ValueError",
              "Exception"}
      [] OTHER -> {exc, "Exception"}

IsInstance(exc, cls) == cls \in ExcBases(exc)

\* the validation_result dictionary as first built
InitialResult(url) ==
    [url |-> url, status |-> "Unknown", status_code |-> NoStatusCode,
     response_time |-> None, error_message |-> None, is_working |-> FALSE,
     contains_funding_keywords |-> FALSE, page_title |-> None]

\* IsInvalidUrl with the scheme test forgotten
IsInvalidUrl_EmptyOnly(url) == url = <<>>

\* the guard before any request: not url or not url.startswith(('http://', 'https://'))
IsInvalidUrl(url) ==
    \/ url = <<>>
    \/ ~(StartsWith(url, S_http) \/ StartsWith(url, S_https))

\* ParseContent without its own try: the parse failure reaches the outer handlers
ParseContent_Uncaught(r, o) ==
    LET titled == IF o.title # None THEN [r EXCEPT !.page_title = o.title] ELSE r
    IN  IF o.parse = "ok"
        THEN [titled EXCEPT !.contains_funding_keywords = o.kw]
        ELSE [titled EXCEPT !.status = "Unknown Error", !.error_message = o.exc]

\* the body of a 200 response: title, keywords; a parse failure is caught here
ParseContent(r, o) ==
    LET titled == IF o.title # None THEN [r EXCEPT !.page_title = o.title] ELSE r
    IN  IF o.parse = "ok"
        THEN [titled EXCEPT !.contains_funding_keywords = o.kw]
        ELSE [titled EXCEPT !.error_message = "Content parsing failed: " \o o.exc]

\* the status of a response that is not 200
ErrorStatus(code) ==
    CASE code = 404 -> [status |-> "404 Not Found", error_message |-> "Page not found"]
      [] code = 403 -> [status |-> "403 Forbidden", error_message |-> "Access forbidden"]
      [] code = 500 -> [status |-> "500 Server Error", error_message |-> "Internal server error"]
      [] OTHER -> [status |-> "HTTP " \o ToString(code),
                   error_message |-> "HTTP status code: " \o ToString(code)]

\* the response branch
ClassifyResponse(r, o) ==
    LET timed == [r EXCEPT !.response_time = "measured", !.status_code = o.code]
    IN  IF o.code = 200
        THEN ParseContent([timed EXCEPT !.status = "Working", !.is_working = TRUE], o)
        ELSE [timed EXCEPT !.status = ErrorStatus(o.code).status,
                           !.error_message = ErrorStatus(o.code).error_message]

\* HandleException with the ConnectionError clause listed before the Timeout clause
HandleException_ConnectionFirst(r, exc, timeout) ==
    IF IsInstance(exc, "ConnectionError")
    THEN [raised |-> FALSE,
          result |-> [r EXCEPT !.status = "Connection Error",
                               !.error_message = "Could not connect to server"]]
    ELSE IF IsInstance(exc, "Timeout")
    THEN [raised |-> FALSE,
          result |-> [r EXCEPT !.status = "Timeout",
                               !.error_message = "Request timed out after "
                                                 \o ToString(timeout) \o " seconds"]]
    ELSE IF IsInstance(exc, "RequestException")
    THEN [raised |-> FALSE,
          result |-> [r EXCEPT !.status = "Request Error", !.error_message = exc]]
    ELSE IF IsInstance(exc, "Exception")
    THEN [raised |-> FALSE,
          result |-> [r EXCEPT !.status = "Unknown Error", !.error_message = exc]]
    ELSE [raised |-> TRUE, result |-> r]

\* HandleException without the final except Exception clause
HandleException_NoCatchAll(r, exc, timeout) ==
    IF IsInstance(exc, "Timeout")
    THEN [raised |-> FALSE,
          result |-> [r EXCEPT !.status = "Timeout",
                               !.error_message = "Request timed out after "
                                                 \o ToString(timeout) \o " seconds"]]
    ELSE IF IsInstance(exc, "ConnectionError")
    THEN [raised |-> FALSE,
          result |-> [r EXCEPT !.status = "Connection Error",
                               !.error_message = "Could not connect to server"]]
    ELSE IF IsInstance(exc, "RequestException")
    THEN [raised |-> FALSE,
          result |-> [r EXCEPT !.status = "Request Error", !.error_message = exc]]
    ELSE [raised |-> TRUE, result |-> r]

\* the except clauses, in the order the code lists them
HandleException(r, exc, timeout) ==
    IF IsInstance(exc, "Timeout")
    THEN [raised |-> FALSE,
          result |-> [r EXCEPT !.status = "Timeout",
                               !.error_message = "Request timed out after "
                                                 \o ToString(timeout) \o " seconds"]]
    ELSE IF IsInstance(exc, "ConnectionError")
    THEN [raised |-> FALSE,
          result |-> [r EXCEPT !.status = "Connection Error",
                               !.error_message = "Could not connect to server"]]
    ELSE IF IsInstance(exc, "RequestException")
    THEN [raised |-> FALSE,
          result |-> [r EXCEPT !.status = "Request Error", !.error_message = exc]]
    ELSE IF IsInstance(exc, "Exception")
    THEN [raised |-> FALSE,
          result |-> [r EXCEPT !.status = "Unknown Error", !.error_message = exc]]
    ELSE [raised |-> TRUE, result |-> r]

\* validate_url(url, timeout) when its GET, if issued, behaves as o.
\* requested: whether requests.get was called; raised: whether an exception escaped.
ValidateUrl(url, timeout, o) ==
    IF IsInvalidUrl(url)
    THEN [raised |-> FALSE, requested |-> FALSE,
          result |-> [InitialResult(url) EXCEPT
                          !.status = "Invalid URL",
                          !.error_message = "URL is empty or does not start with http/https"]]
    ELSE IF o.kind = "response"
    THEN [raised |-> FALSE, requested |-> TRUE,
          result |-> ClassifyResponse(InitialResult(url), o)]
    ELSE [raised |-> HandleException(InitialResult(url), o.exc, timeout).raised,
          requested |-> TRUE,
          result |-> HandleException(InitialResult(url), o.exc, timeout).result]

(***************************************************************************)
(* attempt_url_fix                                                         *)
(***************************************************************************)
\* None where the code holds a URL string
NoneUrl == <<None>>

\* the url recorded when a strategy raised
ErrorUrl == <<"Error generating URL">>

NumStrategies == 10

\* fix_strategies: the k-th rewrite lambda applied to url
ApplyStrategy(k, url) ==
    CASE k = 1 -> IF ~(StartsWith(url, S_http) \/ StartsWith(url, S_https))
                  THEN S_https \o url ELSE url
      [] k = 2 -> Replace(Replace(Replace(url, S_htpp, S_http), S_htpps, S_https),
                          S_wwwwww, S_www)
      [] k = 3 -> IF StartsWith(url, S_http) THEN Replace(url, S_http, S_https) ELSE url
      [] k = 4 -> IF StartsWith(url, S_https) THEN Replace(url, S_https, S_http) ELSE url
      [] k = 5 -> Replace(Replace(url, S_slash3, S_slash2), S_slash4, S_slash2)
      [] k = 6 -> IF Contains(url, S_query) THEN SplitFirst(url, S_query) ELSE url
      [] k = 7 -> IF Contains(url, S_www) THEN Replace(url, S_www, <<>>) ELSE url
      [] k = 8 -> IF ~Contains(url, S_sepwww) /\ Contains(url, S_sep)
                  THEN Replace(url, S_sep, S_sepwww) ELSE url
      [] k = 9 -> IF EndsWith(url, S_slash) THEN RStrip(url, "/") ELSE url
      [] k = 10 -> IF /\ ~EndsWith(url, S_slash)
                      /\ ~Contains(url, S_query)
                      /\ ~Contains(url, S_hash)
                   THEN url \o S_slash ELSE url

\* strategy_names with its first two entries exchanged
strategy_names_Swapped ==
    <<"Fix common typos",
      "Add missing protocol",
      "Try HTTPS instead of HTTP",
      "Try HTTP instead of HTTPS",
      "Remove duplicate slashes",
      "Remove URL parameters",
      "Try without www",
      "Try with www",
      "Remove trailing slash",
      "Add trailing slash">>

strategy_names ==
    <<"Add missing protocol",
      "Fix common typos",
      "Try HTTPS instead of HTTP",
      "Try HTTP instead of HTTPS",
      "Remove duplicate slashes",
      "Remove URL parameters",
      "Try without www",
      "Try with www",
      "Remove trailing slash",
      "Add trailing slash">>

\* the fix_result dictionary as first built
NewFixResult(url, title, source) ==
    [original_url |-> url, title |-> title, source |-> source,
     fix_attempts |-> <<>>, final_status |-> "Not Fixed",
     working_url |-> NoneUrl, fix_strategy |-> None, issues_found |-> <<>>]

\* any(attempt['url'] == url for attempt in fix_attempts)
AlreadyTested(attempts, url) ==
    \E k \in 1..Len(attempts) : attempts[k].url = url

\* the two skips of the strategy loop: unchanged, or already tested
SkipCandidate(attempts, original, fixed_url) ==
    \/ fixed_url = original
    \/ AlreadyTested(attempts, fixed_url)

\* the domain loop without its already-tested skip
SkipDomainFix_Never(attempts, fixed_url) == FALSE

\* the skip of the domain loop
SkipDomainFix(attempts, fixed_url) == AlreadyTested(attempts, fixed_url)

\* the early return left out
ReturnsEarly_Never(is_working) == FALSE

\* the early return after the original URL validated as working
ReturnsEarly(is_working) == is_working

\* the strategy loop without its break
BreakStrategyLoop_Never(is_working) == FALSE

\* the break of the strategy loop
BreakStrategyLoop(is_working) == is_working

\* the domain loop without its break
BreakDomainLoop_Never(is_working) == FALSE

\* the break of the domain loop
BreakDomainLoop(is_working) == is_working

\* the domain-specific phase entered whatever the final status
DomainPhase_Always(final_status) == TRUE

\* the guard of the domain-specific phase
DomainPhase(final_status) == final_status = "Not Fixed"

\* the FixAttempt of an original URL
OriginalAttempt(url, r) ==
    [strategy |-> "Original URL", url |-> url, status |-> r.status,
     working |-> r.is_working]

\* the FixAttempt of a candidate
CandidateAttempt(name, url, r) ==
    [strategy |-> name, url |-> url, status |-> r.status, working |-> r.is_working,
     response_time |-> r.response_time, page_title |-> r.page_title]

\* the FixAttempt recorded when the try block of the strategy loop raised
ErrorAttempt(name, exc) ==
    [strategy |-> name, url |-> ErrorUrl, status |-> "Error", working |-> FALSE,
     error |-> exc]

\* fix_result once a candidate was validated and recorded
Recorded(fr, att) ==
    LET fr1 == [fr EXCEPT !.fix_attempts = Append(@, att)]
    IN  IF att.working
        THEN [fr1 EXCEPT !.final_status = "Fixed", !.working_url = att.url,
                         !.fix_strategy = att.strategy]
        ELSE fr1

\* DomainFixes with every elif written as an independent if
DomainFixes_AllBranches(url) ==
    LET parsed == UrlNetloc(url)
        domain == Lower(parsed.netloc)
    IN  IF ~parsed.ok THEN <<>>
        ELSE (IF Contains(domain, S_ec_europa_eu) /\ Contains(url, S_calls)
              THEN <<Fix_ec_portal>> ELSE <<>>)
             \o (IF Contains(domain, S_ec_europa_eu) /\ Contains(url, S_regional)
                 THEN <<Fix_ec_regional>> ELSE <<>>)
             \o (IF Contains(domain, S_culture_gouv_fr)
                 THEN <<Fix_culture_aides, Fix_culture_creation>> ELSE <<>>)
             \o (IF Contains(domain, S_artscouncil) /\ Contains(domain, S_org_uk)
                 THEN <<Fix_artscouncil>> ELSE <<>>)
             \o (IF Contains(domain, S_kulturfond) \/ Contains(domain, S_kultuur)
                 THEN <<Fix_nordisk>> ELSE <<>>)

\* domain_fixes: the known landing pages for the host of original_url
DomainFixes(url) ==
    LET parsed == UrlNetloc(url)
        domain == Lower(parsed.netloc)
    IN  IF ~parsed.ok THEN <<>>
        ELSE IF Contains(domain, S_ec_europa_eu)
        THEN (IF Contains(url, S_calls) THEN <<Fix_ec_portal>> ELSE <<>>)
             \o (IF Contains(url, S_regional) THEN <<Fix_ec_regional>> ELSE <<>>)
        ELSE IF Contains(domain, S_culture_gouv_fr)
        THEN <<Fix_culture_aides, Fix_culture_creation>>
        ELSE IF Contains(domain, S_artscouncil)
        THEN (IF Contains(domain, S_org_uk) THEN <<Fix_artscouncil>> ELSE <<>>)
        ELSE IF Contains(domain, S_kulturfond) \/ Contains(domain, S_kultuur)
        THEN <<Fix_nordisk>>
        ELSE <<>>

\* whether some recorded attempt has the given status
AnyStatus(attempts, status) ==
    \E k \in 1..Len(attempts) : attempts[k].status = status

ManyAttempts_FromFive(attempts) == Len(attempts) >= 5

\* len(fix_result['fix_attempts']) > 5
ManyAttempts(attempts) == Len(attempts) > 5

\* the issue-diagnosis pass
IssuesFound(url, attempts) ==
    (IF Count(url, S_slash2) > 1 THEN <<"Multiple slashes in URL">> ELSE <<>>)
    \o (IF ~(StartsWith(url, S_http) \/ StartsWith(url, S_https))
        THEN <<"Missing protocol">> ELSE <<>>)
    \o (IF Contains(url, S_wwwwww) THEN <<"Duplicate www prefix">> ELSE <<>>)
    \o (IF AnyStatus(attempts, "404 Not Found")
        THEN <<"Page no longer exists (404)">> ELSE <<>>)
    \o (IF AnyStatus(attempts, "Connection Error") THEN <<"Server unreachable">> ELSE <<>>)
    \o (IF AnyStatus(attempts, "Timeout") THEN <<"Server too slow to respond">> ELSE <<>>)
    \o (IF AnyStatus(attempts, "403 Forbidden")
        THEN <<"Access forbidden by server">> ELSE <<>>)
    \o (IF ManyAttempts(attempts) THEN <<"Multiple fix strategies failed">> ELSE <<>>)

(***************************************************************************)
(* Inputs: the URLs handed to the program and what the network answers.    *)
(***************************************************************************)
\* how many URLs of UrlPool are used
MaxUrls == 8

\* how many outcomes of OutcomePool a repair's validations draw from
MaxFixOutcomes == 4

UrlPool ==
    <<Url_typo, Url_culture, Url_empty, Url_multi, Url_ftp, Url_bracket,
      Url_upper, Url_nordic, Url_noscheme, Url_typos2>>

OutcomePool ==
    <<ResponseOutcome(200, "ok", "Funding", TRUE),
      ResponseOutcome(404, "ok", None, FALSE),
      ExceptionOutcome("ConnectTimeout"),
      ExceptionOutcome("ValueError"),
      ResponseOutcome(403, "ok", None, FALSE),
      ExceptionOutcome("ConnectionError"),
      ResponseOutcome(500, "ok", None, FALSE),
      ResponseOutcome(503, "ok", None, FALSE),
      ResponseOutcome(200, "error", None, FALSE),
      ExceptionOutcome("ReadTimeout"),
      ExceptionOutcome("TooManyRedirects"),
      ResponseOutcome(200, "error", "Funding", FALSE),
      ResponseOutcome(200, "ok", None, FALSE),
      ExceptionOutcome("InvalidURL"),
      ExceptionOutcome("SSLError"),
      ResponseOutcome(301, "ok", None, FALSE)>>

\* the URLs a caller may pass
Urls == {UrlPool[k] : k \in {m \in 1..Len(UrlPool) : m <= MaxUrls}}

\* what the GET of a validation called by another caller may do
Outcomes == {OutcomePool[k] : k \in 1..Len(OutcomePool)}

\* what the GET of a validation called by a repair may do
FixOutcomes == {OutcomePool[k] : k \in {m \in 1..Len(OutcomePool) : m <= MaxFixOutcomes}}

Timeouts == {DefaultTimeout, FixTimeout}

(***************************************************************************)
(* The state machine.                                                      *)
(***************************************************************************)
\* the record of one validate_url call
Call(url, timeout, o) ==
    [made |-> TRUE, url |-> url, timeout |-> timeout, outcome |-> o,
     raised |-> ValidateUrl(url, timeout, o).raised,
     requested |-> ValidateUrl(url, timeout, o).requested,
     result |-> ValidateUrl(url, timeout, o).result]

NoCall ==
    [made |-> FALSE, url |-> <<>>, timeout |-> DefaultTimeout,
     outcome |-> ExceptionOutcome(""), raised |-> FALSE, requested |-> FALSE,
     result |-> InitialResult(<<>>)]

\* no create_url_fix_log call is running
NoBatch ==
    [pc |-> "idle", broken_urls |-> <<>>, i |-> 0, fix_results |-> <<>>,
     fixed_count |-> 0, repaired |-> <<>>, fix_log_data |-> <<>>,
     returned |-> None, json |-> "absent", txt |-> "absent"]

\* no create_analysis_log call is running
NoAnalysis ==
    [pc |-> "idle",
     results |-> [french |-> <<>>, european |-> <<>>, colombian |-> <<>>],
     all_results |-> <<>>, urls_to_validate |-> <<>>, i |-> 0, validated |-> <<>>,
     url_validation_results |-> <<>>, working_urls |-> <<>>, broken_urls |-> <<>>,
     urgent_7 |-> <<>>, urgent_30 |-> <<>>, medium_90 |-> <<>>, distant |-> <<>>,
     amounts |-> <<>>, total_funding |-> 0, avg_funding |-> [num |-> 0, den |-> 1],
     max_funding |-> 0, min_funding |-> 0,
     auto_fix_urls |-> FALSE, json |-> "absent", txt |-> "absent",
     fix_log_path |-> None, returned |-> None]

\* save_results_to_excel_and_logs / save_results_to_excel before any call:
\* keywords and search_type are the last search parameters, clean_keywords
\* and keyword_part the locals that go into the file names
NoExport ==
    [pc |-> "idle", keywords |-> <<>>, search_type |-> <<>>,
     clean_keywords |-> <<>>, keyword_part |-> <<>>]

\* no search_all call is running; args holds the defaults of the signature.
\* Observers: adapter (what each adapter returned), all_results (the list
\* search_european_subventions removes the duplicates from), calls (the
\* adapter calls made) and replies (what the API of each call did)
NoSearch ==
    [pc |-> "idle",
     args |-> [include_european |-> TRUE, include_colombian |-> FALSE, limit |-> 100,
               european_region |-> [type |-> "str", value |-> ""]],
     now |-> [y |-> 2025, m |-> 1, d |-> 1, midnight |-> FALSE],
     search_limit |-> 100,
     results |-> [french |-> <<>>, european |-> <<>>, colombian |-> <<>>],
     adapter |-> [french |-> <<>>, european |-> <<>>, colombian |-> <<>>],
     all_results |-> <<>>,
     calls |-> <<>>,
     replies |-> <<>>,
     exc |-> ""]

Init ==
    /\ pc = "idle"
    /\ original_url = <<>>
    /\ fix_result = NewFixResult(<<>>, "", "")
    /\ i = 0
    /\ domain_fixes = <<>>
    /\ j = 0
    /\ calls = <<>>
    /\ vcall = NoCall
    /\ batch = NoBatch
    /\ analysis = NoAnalysis
    /\ search = NoSearch
    /\ export = NoExport

\* a caller other than the repair engine validates one URL
ValidateCall(u, t, o) ==
    /\ pc = "idle"
    /\ vcall' = Call(u, t, o)
    /\ UNCHANGED <<pc, original_url, fix_result, i, domain_fixes, j, calls>>

\* attempt_url_fix(u, title, source) up to the end of the validation of the
\* original URL
FixStartOf(u, title, source, o) ==
    LET fr == NewFixResult(u, title, source)
        c == Call(u, FixTimeout, o)
        tested == [fr EXCEPT !.fix_attempts = Append(@, OriginalAttempt(u, c.result))]
    IN  /\ pc = "idle"
        /\ original_url' = u
        /\ domain_fixes' = <<>>
        /\ j' = 0
        /\ IF u = <<>>
           THEN /\ fix_result' = [fr EXCEPT !.issues_found = <<"URL is empty">>]
                /\ pc' = "done"
                /\ i' = 0
                /\ calls' = <<>>
                /\ UNCHANGED vcall
           ELSE /\ vcall' = c
                /\ calls' = <<[url |-> u, phase |-> "original", idx |-> 0]>>
                /\ IF c.raised
                   THEN /\ fix_result' = fr
                        /\ pc' = "raised"
                        /\ i' = 0
                   ELSE /\ fix_result' =
                               IF c.result.is_working
                               THEN [tested EXCEPT !.final_status = "Already Working",
                                                   !.working_url = u]
                               ELSE tested
                        /\ pc' = IF ReturnsEarly(c.result.is_working)
                                 THEN "done" ELSE "generic"
                        /\ i' = IF ReturnsEarly(c.result.is_working) THEN 0 ELSE 1

\* attempt_url_fix(u): title and source keep their defaults
FixStart(u, o) ==
    FixStartOf(u, "", "", o)

\* one iteration of the strategy loop
GenericStep(o) ==
    LET fixed_url == ApplyStrategy(i, original_url)
        name == strategy_names[i]
        skip == SkipCandidate(fix_result.fix_attempts, original_url, fixed_url)
        c == Call(fixed_url, FixTimeout, o)
        broke == ~skip /\ ~c.raised /\ BreakStrategyLoop(c.result.is_working)
    IN  /\ pc = "generic"
        /\ i \in 1..NumStrategies
        /\ IF skip
           THEN UNCHANGED <<fix_result, calls, vcall>>
           ELSE /\ vcall' = c
                /\ calls' = Append(calls, [url |-> fixed_url, phase |-> "generic", idx |-> i])
                /\ fix_result' =
                       IF c.raised
                       THEN [fix_result EXCEPT
                                 !.fix_attempts = Append(@, ErrorAttempt(name, o.exc))]
                       ELSE Recorded(fix_result, CandidateAttempt(name, fixed_url, c.result))
        /\ i' = IF broke THEN i ELSE i + 1
        /\ pc' = IF broke \/ i + 1 > NumStrategies THEN "domain_build" ELSE "generic"
        /\ UNCHANGED <<original_url, domain_fixes, j>>

\* after the strategy loop: the domain-specific candidates are collected
DomainBuild ==
    LET entered == DomainPhase(fix_result.final_status)
        fixes == IF entered THEN DomainFixes(original_url) ELSE domain_fixes
    IN  /\ pc = "domain_build"
        /\ domain_fixes' = fixes
        /\ j' = IF entered THEN 1 ELSE j
        /\ pc' = IF entered /\ fixes # <<>> THEN "domain" ELSE "diagnose"
        /\ UNCHANGED <<original_url, fix_result, i, calls, vcall>>

\* one iteration of the domain loop
DomainStep(o) ==
    LET fixed_url == domain_fixes[j]
        skip == SkipDomainFix(fix_result.fix_attempts, fixed_url)
        c == Call(fixed_url, FixTimeout, o)
        broke == ~skip /\ BreakDomainLoop(c.result.is_working)
    IN  /\ pc = "domain"
        /\ j \in 1..Len(domain_fixes)
        /\ IF skip
           THEN /\ UNCHANGED <<fix_result, calls, vcall>>
                /\ j' = j + 1
                /\ pc' = IF j + 1 > Len(domain_fixes) THEN "diagnose" ELSE "domain"
           ELSE /\ vcall' = c
                /\ calls' = Append(calls, [url |-> fixed_url, phase |-> "domain", idx |-> j])
                /\ IF c.raised
                   THEN /\ UNCHANGED <<fix_result, j>>
                        /\ pc' = "raised"
                   ELSE /\ fix_result' =
                               Recorded(fix_result,
                                        CandidateAttempt("Domain-specific fix", fixed_url,
                                                         c.result))
                        /\ j' = IF broke THEN j ELSE j + 1
                        /\ pc' = IF broke \/ j + 1 > Len(domain_fixes)
                                 THEN "diagnose" ELSE "domain"
        /\ UNCHANGED <<original_url, i, domain_fixes>>

\* the issue-diagnosis pass, then the return
Diagnose ==
    /\ pc = "diagnose"
    /\ fix_result' =
           IF fix_result.final_status = "Not Fixed"
           THEN [fix_result EXCEPT
                     !.issues_found = @ \o IssuesFound(original_url, fix_result.fix_attempts)]
           ELSE fix_result
    /\ pc' = "done"
    /\ UNCHANGED <<original_url, i, domain_fixes, j, calls, vcall>>

\* the caller takes the result; the next call may start
Return ==
    /\ pc \in {"done", "raised"}
    /\ pc' = "idle"
    /\ original_url' = <<>>
    /\ fix_result' = NewFixResult(<<>>, "", "")
    /\ i' = 0
    /\ domain_fixes' = <<>>
    /\ j' = 0
    /\ calls' = <<>>
    /\ UNCHANGED vcall

\* a step of a running attempt_url_fix call
FixStep ==
    \/ \E o \in FixOutcomes : GenericStep(o)
    \/ DomainBuild
    \/ \E o \in FixOutcomes : DomainStep(o)
    \/ Diagnose

\* a step of the validator or of the repair engine leaves the locals of the
\* batch, of the analysis and of the search alone
Standalone ==
    UNCHANGED <<batch, analysis, search, export>>

Next ==
    \/ \E u \in Urls, t \in Timeouts, o \in Outcomes :
           ValidateCall(u, t, o) /\ Standalone
    \/ \E u \in Urls, o \in FixOutcomes : FixStart(u, o) /\ Standalone
    \/ \E o \in FixOutcomes : GenericStep(o) /\ Standalone
    \/ DomainBuild /\ Standalone
    \/ \E o \in FixOutcomes : DomainStep(o) /\ Standalone
    \/ Diagnose /\ Standalone
    \/ Return /\ Standalone

Spec == Init /\ [][Next]_vars

(***************************************************************************)
(* The link validator.                                                     *)
(***************************************************************************)
\* C1: a URL that is empty or starts with neither http:// nor https:// is
\* answered is_working = FALSE and status "Invalid URL", and no HTTP request
\* is issued for it.
C1_InvalidUrlWithoutRequest ==
    (/\ vcall.made
     /\ \/ vcall.url = <<>>
        \/ \A p \in {S_http, S_https} :
               \/ Len(vcall.url) < Len(p)
               \/ \E k \in 1..Len(p) : vcall.url[k] # p[k])
    => /\ ~vcall.raised
       /\ ~vcall.requested
       /\ vcall.result.is_working = FALSE
       /\ vcall.result.status = "Invalid URL"

\* C1 happens: ftp://old.example was validated while the network would have
\* answered 200.
C1_Witness ==
    /\ vcall.made
    /\ vcall.url = Url_ftp
    /\ vcall.outcome.kind = "response"
    /\ vcall.outcome.code = 200
    /\ vcall.result.status = "Invalid URL"

\* C2: is_working is TRUE exactly when the GET returned HTTP 200, which is
\* exactly when the status is "Working"; a failure to parse the body of a 200
\* response leaves is_working TRUE and the status "Working" and only writes a
\* parse-error note into error_message.
C2_WorkingIffHttp200 ==
    vcall.made =>
        LET got200 == /\ vcall.requested
                      /\ vcall.outcome.kind = "response"
                      /\ vcall.outcome.code = 200
        IN  /\ vcall.result.is_working <=> got200
            /\ vcall.result.is_working <=> vcall.result.status = "Working"
            /\ (got200 /\ vcall.outcome.parse = "error")
               => /\ vcall.result.is_working
                  /\ vcall.result.status = "Working"
                  /\ vcall.result.error_message
                         = "Content parsing failed: " \o vcall.outcome.exc

\* C2 happens: a 200 response whose body did not parse.
C2_Witness ==
    /\ vcall.made
    /\ vcall.requested
    /\ vcall.outcome.kind = "response"
    /\ vcall.outcome.code = 200
    /\ vcall.outcome.parse = "error"
    /\ vcall.result.is_working

\* C3 as claimed: for a URL with a valid scheme the status follows the listed
\* policy (timeout, connection failure, other transport exception, 200, 404,
\* 403, 500, any other code) and is always one of the eight listed values.
C3_StatusOneOfListed ==
    (vcall.made /\ vcall.requested) =>
        LET o == vcall.outcome
            bases == ExcBases(o.exc)
            listed == {"Timeout", "Connection Error", "Request Error", "Working",
                       "404 Not Found", "403 Forbidden", "500 Server Error",
                       "HTTP " \o ToString(o.code)}
        IN  /\ vcall.result.status \in listed
            /\ (o.kind = "exception" /\ "Timeout" \in bases)
               => vcall.result.status = "Timeout"
            /\ (o.kind = "exception" /\ "Timeout" \notin bases
                /\ "ConnectionError" \in bases)
               => vcall.result.status = "Connection Error"
            /\ (o.kind = "exception" /\ "Timeout" \notin bases
                /\ "ConnectionError" \notin bases /\ "RequestException" \in bases)
               => vcall.result.status = "Request Error"
            /\ (o.kind = "response" /\ o.code = 200) => vcall.result.status = "Working"
            /\ (o.kind = "response" /\ o.code = 404)
               => vcall.result.status = "404 Not Found"
            /\ (o.kind = "response" /\ o.code = 403)
               => vcall.result.status = "403 Forbidden"
            /\ (o.kind = "response" /\ o.code = 500)
               => vcall.result.status = "500 Server Error"
            /\ (o.kind = "response" /\ o.code \notin {200, 404, 403, 500})
               => vcall.result.status = "HTTP " \o ToString(o.code)

\* C3 as amended: the status follows the policy, checked in order: timeout,
\* connection failure, other transport exception, any other exception
\* ("Unknown Error"), then 200, 404, 403, 500 and "HTTP c" for any other code c.
C3_StatusPolicy ==
    (vcall.made /\ vcall.requested) =>
        LET o == vcall.outcome
            bases == ExcBases(o.exc)
        IN  vcall.result.status =
                IF o.kind = "exception"
                THEN IF "Timeout" \in bases THEN "Timeout"
                     ELSE IF "ConnectionError" \in bases THEN "Connection Error"
                     ELSE IF "RequestException" \in bases THEN "Request Error"
                     ELSE "Unknown Error"
                ELSE CASE o.code = 200 -> "Working"
                       [] o.code = 404 -> "404 Not Found"
                       [] o.code = 403 -> "403 Forbidden"
                       [] o.code = 500 -> "500 Server Error"
                       [] OTHER -> "HTTP " \o ToString(o.code)

\* C3 happens: a connect timeout (a timeout and a connection failure at once)
\* was classified.
C3_Witness ==
    /\ vcall.made
    /\ vcall.requested
    /\ vcall.outcome.exc = "ConnectTimeout"
    /\ vcall.result.status = "Timeout"

\* C4: whatever the URL and whatever the request does (a response, a transport
\* exception, any other exception), validate_url returns a result and raises
\* nothing, and after an exception is_working is FALSE.
C4_NeverRaises ==
    vcall.made =>
        /\ ~vcall.raised
        /\ vcall.result.status # "Unknown"
        /\ (vcall.requested /\ vcall.outcome.kind = "exception")
           => vcall.result.is_working = FALSE

\* C4 happens: the request raised an exception that is no transport exception.
C4_Witness ==
    /\ vcall.made
    /\ vcall.requested
    /\ vcall.outcome.kind = "exception"
    /\ "RequestException" \notin ExcBases(vcall.outcome.exc)
    /\ ~vcall.raised

(***************************************************************************)
(* The URL repair engine.                                                  *)
(***************************************************************************)
\* C5: a repair that returns "Already Working" made exactly one validation
\* call, on the original URL, recorded exactly one attempt, returns the
\* original URL as working_url, and tried no strategy and no domain override.
C5_AlreadyWorkingOneCall ==
    (pc = "done" /\ fix_result.final_status = "Already Working") =>
        /\ Len(calls) = 1
        /\ calls[1].phase = "original"
        /\ calls[1].url = original_url
        /\ Len(fix_result.fix_attempts) = 1
        /\ fix_result.fix_attempts[1].strategy = "Original URL"
        /\ fix_result.working_url = original_url
        /\ fix_result.fix_strategy = None
        /\ i = 0
        /\ j = 0
        /\ domain_fixes = <<>>

\* C5 happens: a URL that several strategies would rewrite validated as working.
C5_Witness ==
    /\ pc = "done"
    /\ original_url = Url_nordic
    /\ fix_result.final_status = "Already Working"

\* C6: the first candidate that validates as working ends the repair: it is
\* the last attempt and the last validation call, the final status is "Fixed",
\* and fix_strategy and working_url are that candidate's name and URL.
C6_FirstWorkingCandidateEndsRepair ==
    \A k \in 2..Len(fix_result.fix_attempts) :
        fix_result.fix_attempts[k].working =>
            /\ k = Len(fix_result.fix_attempts)
            /\ Len(calls) = k
            /\ calls[k].url = fix_result.fix_attempts[k].url
            /\ pc \in {"domain_build", "diagnose", "done"}
            /\ fix_result.final_status = "Fixed"
            /\ fix_result.fix_strategy = fix_result.fix_attempts[k].strategy
            /\ fix_result.working_url = fix_result.fix_attempts[k].url

\* C6 happens: the first of three candidates worked and the repair returned.
C6_Witness ==
    /\ pc = "done"
    /\ original_url = Url_culture
    /\ fix_result.final_status = "Fixed"
    /\ fix_result.fix_strategy = "Try HTTPS instead of HTTP"
    /\ Len(calls) = 2

\* C7: within one repair no URL string is validated twice: the URLs of the
\* recorded attempts are pairwise distinct, and so are the URLs of the
\* validation calls.
C7_NoUrlValidatedTwice ==
    /\ \A a, b \in 1..Len(fix_result.fix_attempts) :
           a # b => fix_result.fix_attempts[a].url # fix_result.fix_attempts[b].url
    /\ \A a, b \in 1..Len(calls) : a # b => calls[a].url # calls[b].url

\* C7 happens: a domain override equal to an already tested candidate was
\* skipped and the next override was validated.
C7_Witness ==
    /\ pc = "done"
    /\ original_url = Url_culture
    /\ Len(domain_fixes) = 2
    /\ AlreadyTested(fix_result.fix_attempts, domain_fixes[1])
    /\ Cardinality({k \in 1..Len(calls) : calls[k].phase = "domain"}) = 1
    /\ Len(calls) = 5

\* C8: the candidates are validated in a fixed order: the original URL first,
\* then generic strategies in their listed order, each applied to the original
\* URL and at most once, then domain overrides; a domain override is validated
\* only after the strategy loop has gone through all ten strategies without a
\* working result.
C8_FixedCandidateOrder ==
    /\ calls # <<>> =>
           /\ calls[1].phase = "original"
           /\ calls[1].url = original_url
    /\ \A k \in 2..Len(calls) : calls[k].phase \in {"generic", "domain"}
    /\ \A k \in 1..Len(calls) :
           calls[k].phase = "generic" =>
               /\ calls[k].idx \in 1..10
               /\ calls[k].url = ApplyStrategy(calls[k].idx, original_url)
               /\ k <= Len(fix_result.fix_attempts)
               /\ fix_result.fix_attempts[k].strategy = strategy_names[calls[k].idx]
    /\ \A a, b \in 1..Len(calls) :
           a < b =>
               /\ calls[a].phase = "domain" => calls[b].phase = "domain"
               /\ (calls[a].phase = "generic" /\ calls[b].phase = "generic")
                  => calls[a].idx < calls[b].idx
    /\ \A k \in 1..Len(calls) :
           calls[k].phase = "domain" =>
               /\ i = 11
               /\ \A m \in 1..Len(calls) :
                      calls[m].phase # "domain" => ~fix_result.fix_attempts[m].working

\* C8 happens: the original URL, five generic candidates and a domain override
\* were validated.
C8_Witness ==
    /\ pc = "done"
    /\ original_url = Url_nordic
    /\ Len(calls) = 7
    /\ calls[7].phase = "domain"

\* C9: one repair makes at most 15 validation calls, 1 for the original URL,
\* at most 10 for generic strategies and at most 4 for domain overrides; and it
\* terminates: inside a loop there is a next iteration to take, and every step
\* of a running repair strictly lowers a rank that is never negative (the
\* strategies and overrides still ahead).
C9_AtMostFifteenValidations ==
    /\ [](LET n(phase) == Cardinality({k \in 1..Len(calls) : calls[k].phase = phase})
          IN  /\ n("original") <= 1
              /\ n("generic") <= 10
              /\ n("domain") <= 4
              /\ Len(calls) <= 15
              /\ pc = "generic" => i \in 1..10
              /\ pc = "domain" => j \in 1..Len(domain_fixes) /\ j <= 4)
    /\ [][LET rank(p, si, dj) ==
                  CASE p = "generic" -> 30 - si
                    [] p = "domain_build" -> 18
                    [] p = "domain" -> 12 - dj
                    [] p = "diagnose" -> 1
                    [] OTHER -> 0
          IN  (pc \in {"generic", "domain_build", "domain", "diagnose"})
              => (0 <= rank(pc', i', j') /\ rank(pc', i', j') < rank(pc, i, j))]_vars

\* C9 happens: a repair validated the original URL, three generic candidates
\* and two domain overrides, and returned.
C9_Witness ==
    /\ pc = "done"
    /\ original_url = Url_multi
    /\ Cardinality({k \in 1..Len(calls) : calls[k].phase = "domain"}) = 2
    /\ Len(calls) = 6

\* C10: for the original URL htpp://exemple.org/page?x=1, whose own validation
\* fails, the strategy "Fix common typos" produces
\* http://exemple.org/page?x=1, and when that candidate validates as working
\* the repair returns "Fixed" with fix_strategy "Fix common typos".
C10_TypoScenario ==
    (/\ pc = "done"
     /\ original_url = Url_typo
     /\ ~fix_result.fix_attempts[1].working)
    => \A k \in 1..Len(fix_result.fix_attempts) :
           /\ fix_result.fix_attempts[k].strategy = "Fix common typos"
              => fix_result.fix_attempts[k].url = Url_typo_fixed
           /\ (/\ fix_result.fix_attempts[k].url = Url_typo_fixed
               /\ fix_result.fix_attempts[k].working)
              => /\ fix_result.final_status = "Fixed"
                 /\ fix_result.fix_strategy = "Fix common typos"
                 /\ fix_result.working_url = Url_typo_fixed

\* C10 happens: the original URL failed and the typo candidate worked.
C10_Witness ==
    /\ pc = "done"
    /\ original_url = Url_typo
    /\ fix_result.fix_attempts[1].working = FALSE
    /\ Len(fix_result.fix_attempts) = 3
    /\ fix_result.fix_attempts[3].url = Url_typo_fixed
    /\ fix_result.fix_attempts[3].working

(***************************************************************************)
(* The batch repair: create_url_fix_log.                                   *)
(***************************************************************************)
\* how long a list of broken-URL records is
MaxBatch == 2

\* the broken-URL records a batch is built from: what create_analysis_log
\* hands over, of which url, title and source are read
BrokenPool ==
    <<[url |-> Url_typo, title |-> "Appel", source |-> "EU Programme (Live)"],
      [url |-> Url_culture, title |-> "Aide", source |-> "Aides-Territoires (France)"],
      [url |-> Url_ftp, title |-> "Beca", source |-> "Colombia"]>>

RECURSIVE ListsUpTo(_, _)
\* the lists of at most n elements of S
ListsUpTo(S, n) ==
    IF n = 0 THEN {<<>>}
    ELSE LET shorter == ListsUpTo(S, n - 1)
         IN  shorter \cup {Append(l, x) : l \in shorter, x \in S}

BrokenLists ==
    ListsUpTo({BrokenPool[k] : k \in 1..Len(BrokenPool)}, MaxBatch)

\* what the GET of a validation made inside a batch may do: 200 or 404
BatchOutcomes == {OutcomePool[1], OutcomePool[2]}

\* a result that counts as fixed although the URL needed no repair
CountsAsFixed_AnyWorking(final_status) ==
    final_status # "Not Fixed"

\* if fix_result['final_status'] == 'Fixed'
CountsAsFixed(final_status) ==
    final_status = "Fixed"

\* len([r for r in fix_results if r['final_status'] == status])
CountStatus(results, status) ==
    Cardinality({k \in 1..Len(results) : results[k].final_status = status})

\* the metadata and summary counters of fix_log_data
FixLogData(broken, results, fixed_count) ==
    [total_broken_urls |-> Len(broken),
     successfully_fixed |-> fixed_count,
     fixed_urls |-> fixed_count,
     already_working |-> CountStatus(results, "Already Working"),
     not_fixed |-> CountStatus(results, "Not Fixed"),
     fix_results |-> results]

\* create_url_fix_log(l, filename) up to the loop
BatchBegin(l) ==
    IF l = <<>>
    THEN [NoBatch EXCEPT !.pc = "returned"]
    ELSE [NoBatch EXCEPT !.pc = "loop", !.broken_urls = l, !.i = 1]

BatchStart(l) ==
    /\ batch.pc \in {"idle", "returned"}
    /\ pc = "idle"
    /\ batch' = BatchBegin(l)
    /\ UNCHANGED <<pc, original_url, fix_result, i, domain_fixes, j, calls, vcall,
                   analysis, search, export>>

\* the loop body calls attempt_url_fix for the current record
BatchAttempt(o) ==
    /\ batch.pc = "loop"
    /\ batch.i \in 1..Len(batch.broken_urls)
    /\ LET broken_url == batch.broken_urls[batch.i]
       IN  FixStartOf(broken_url.url, broken_url.title, broken_url.source, o)
    /\ batch' = [batch EXCEPT !.repaired = Append(@, batch.i)]
    /\ UNCHANGED <<analysis, search, export>>

\* attempt_url_fix has returned: the result is appended and counted; an
\* exception that escaped it is caught by the function's except clause
BatchCollect ==
    /\ batch.pc = "loop"
    /\ Return
    /\ batch' = IF pc = "raised"
                THEN [batch EXCEPT !.pc = "returned", !.returned = None]
                ELSE [batch EXCEPT
                          !.fix_results = Append(@, fix_result),
                          !.fixed_count =
                              IF CountsAsFixed(fix_result.final_status)
                              THEN @ + 1 ELSE @,
                          !.i = @ + 1]
    /\ UNCHANGED <<analysis, search, export>>

\* what writing one file may do: succeed, fail in open (no file is made), or
\* fail in a write (the file is left incomplete)
WriteOutcomes == {"ok", "open fails", "write fails"}

\* the file a "with open(path, 'w')" block leaves behind
FileAfter(io) ==
    IF io = "ok" THEN "complete" ELSE IF io = "open fails" THEN "absent" ELSE "partial"

\* after the loop: fix_log_data is built, the .json file is written and then
\* its .txt twin; an OSError ends the function in its except clause
BatchFinish(json_io, txt_io) ==
    /\ batch.pc = "loop"
    /\ pc = "idle"
    /\ batch.i > Len(batch.broken_urls)
    /\ json_io # "ok" => txt_io = "open fails"
    /\ batch' = [batch EXCEPT
                    !.fix_log_data = <<FixLogData(batch.broken_urls, batch.fix_results,
                                                  batch.fixed_count)>>,
                    !.pc = "returned",
                    !.json = FileAfter(json_io),
                    !.txt = IF json_io = "ok" THEN FileAfter(txt_io) ELSE "absent",
                    !.returned = IF json_io = "ok" /\ txt_io = "ok"
                                 THEN "log_path" ELSE None]
    /\ UNCHANGED <<pc, original_url, fix_result, i, domain_fixes, j, calls, vcall,
                   analysis, search, export>>

BatchNext ==
    \/ \E l \in BrokenLists : BatchStart(l)
    \/ \E o \in BatchOutcomes : BatchAttempt(o)
    \/ \E o \in BatchOutcomes : batch.pc = "loop" /\ GenericStep(o) /\ Standalone
    \/ batch.pc = "loop" /\ DomainBuild /\ Standalone
    \/ \E o \in BatchOutcomes : batch.pc = "loop" /\ DomainStep(o) /\ Standalone
    \/ batch.pc = "loop" /\ Diagnose /\ Standalone
    \/ BatchCollect
    \/ \E json_io, txt_io \in WriteOutcomes : BatchFinish(json_io, txt_io)

BatchSpec == Init /\ [][BatchNext]_vars

\* C11: create_url_fix_log repairs the records one at a time, in input order
\* and exactly once each: attempt_url_fix has been called for the records
\* 1, 2, ... in this order, the call for a record starts only when the
\* results of all records before it are collected, fix_results[k] is the
\* repair of broken_urls[k], and the counters of the finished log add up:
\* fixed + already_working + not_fixed = number of records.
C11_SequentialBatchAndCounters ==
    LET n == Len(batch.broken_urls)
        done == Len(batch.fix_results)
        started == Len(batch.repaired)
    IN  /\ done <= n
        /\ \A k \in 1..started : batch.repaired[k] = k
        /\ started = IF pc = "idle" \/ batch.pc # "loop" THEN done ELSE done + 1
        /\ (batch.pc = "loop" /\ pc # "idle")
               => /\ started <= n
                  /\ original_url = batch.broken_urls[started].url
        /\ \A k \in 1..done :
               /\ batch.fix_results[k].original_url = batch.broken_urls[k].url
               /\ batch.fix_results[k].title = batch.broken_urls[k].title
               /\ batch.fix_results[k].source = batch.broken_urls[k].source
        /\ \A k \in 1..Len(batch.fix_log_data) :
               LET d == batch.fix_log_data[k]
               IN  /\ done = n
                   /\ started = n
                   /\ d.fix_results = batch.fix_results
                   /\ d.total_broken_urls = n
                   /\ d.fixed_urls + d.already_working + d.not_fixed = n

\* C11 happens: a batch of two records is finished and its log written, one
\* record fixed and one already working.
C11_Witness ==
    /\ batch.pc = "returned"
    /\ batch.returned = "log_path"
    /\ Len(batch.broken_urls) = 2
    /\ Len(batch.fix_log_data) = 1
    /\ batch.fix_log_data[1].fixed_urls = 1
    /\ batch.fix_log_data[1].already_working = 1

(***************************************************************************)
(* Dates (datetime): src/api.py computes days_until_deadline from date     *)
(* strings.  A date string is its format and the numbers written in it.    *)
(***************************************************************************)
\* the value no deadline gets
NoDeadlineDays == 999

\* a date string: fmt is "dmy" (31/12/2025), "ymd" (2025-12-31), "ymdT"
\* (2025-12-31T23:59:00...), "text" (any other non-empty text), "" (the
\* empty string) or "None" (Python's None)
DateStr(fmt, y, m, d) ==
    [fmt |-> fmt, y |-> y, m |-> m, d |-> d]

EmptyStr == DateStr("", 0, 0, 0)

NoneStr == DateStr("None", 0, 0, 0)

TextStr == DateStr("text", 0, 0, 0)

\* not date_str
IsFalsy(date_str) ==
    date_str.fmt \in {"", "None"}

IsLeap(y) ==
    (y % 4 = 0 /\ y % 100 # 0) \/ y % 400 = 0

DaysInMonth(y, m) ==
    IF m = 2 THEN (IF IsLeap(y) THEN 29 ELSE 28)
    ELSE IF m \in {4, 6, 9, 11} THEN 30 ELSE 31

RECURSIVE DaysBeforeMonth(_, _)
DaysBeforeMonth(y, m) ==
    IF m <= 1 THEN 0 ELSE DaysBeforeMonth(y, m - 1) + DaysInMonth(y, m - 1)

\* date.toordinal(): the number of the day, day 1 being 0001-01-01
Ordinal(y, m, d) ==
    LET b == y - 1
    IN  365 * b + (b \div 4) - (b \div 100) + (b \div 400) + DaysBeforeMonth(y, m) + d

\* datetime.strptime(date_str, fmt) succeeds: the string has this format and
\* names a day of the calendar
Parses(date_str, fmt) ==
    /\ date_str.fmt = fmt
    /\ date_str.y \in 1..9999
    /\ date_str.m \in 1..12
    /\ date_str.d \in 1..DaysInMonth(date_str.y, date_str.m)

\* (deadline - now).days for a deadline at 00:00 of its day: timedelta.days
\* rounds down, so a started day of "now" costs one day
DeltaDays(date_str, now) ==
    Ordinal(date_str.y, date_str.m, date_str.d) - Ordinal(now.y, now.m, now.d)
        - (IF now.midnight THEN 0 ELSE 1)

Max(a, b) == IF a >= b THEN a ELSE b

Min(a, b) == IF a <= b THEN a ELSE b

\* AidesTerritoriesAPI._format_date
FormatDate(date_str) ==
    IF IsFalsy(date_str) THEN EmptyStr
    ELSE IF \E fmt \in {"ymd", "ymdT", "dmy"} : Parses(date_str, fmt)
         THEN DateStr("dmy", date_str.y, date_str.m, date_str.d)
         ELSE date_str

\* AidesTerritoriesAPI._calculate_days_until_deadline and
\* DynamicEuropeanAPI._calculate_days_until_deadline (the same code)
CalculateDaysUntilDeadline(deadline_str, now) ==
    IF IsFalsy(deadline_str) THEN NoDeadlineDays
    ELSE IF Parses(deadline_str, "dmy")
         THEN Max(0, DeltaDays(deadline_str, now))
         ELSE NoDeadlineDays

\* SubventionSearcher._calculate_days_until
CalculateDaysUntil(deadline_str, now) ==
    IF Parses(deadline_str, "ymd")
    THEN Max(0, DeltaDays(deadline_str, now))
    ELSE NoDeadlineDays

RECURSIVE PlusDays(_, _)
\* the day n days after the day written in date_str (date + timedelta(days=n))
PlusDays(date_str, n) ==
    LET rest == DaysInMonth(date_str.y, date_str.m) - date_str.d
    IN  IF n <= rest THEN [date_str EXCEPT !.d = @ + n]
        ELSE IF date_str.m < 12
             THEN PlusDays([date_str EXCEPT !.m = @ + 1, !.d = 1], n - rest - 1)
             ELSE PlusDays([date_str EXCEPT !.y = @ + 1, !.m = 1, !.d = 1],
                           n - rest - 1)

(***************************************************************************)
(* SubventionSearcher._sort_by_deadline.                                   *)
(***************************************************************************)
\* the sort key with the days forgotten: only the bucket orders
get_deadline_priority_BucketOnly(item) ==
    LET days_until == item.days_until_deadline
    IN  IF days_until < 30 THEN <<1, 0>>
        ELSE IF days_until < 90 THEN <<2, 0>>
        ELSE <<3, 0>>

\* get_deadline_priority: every record of the adapters has the field
\* days_until_deadline, so the default of item.get is not used
get_deadline_priority(item) ==
    LET days_until == item.days_until_deadline
    IN  IF days_until < 30 THEN <<1, days_until>>
        ELSE IF days_until < 90 THEN <<2, days_until>>
        ELSE <<3, days_until>>

\* Python's order of two-element tuples
TupleLess(a, b) ==
    a[1] < b[1] \/ (a[1] = b[1] /\ a[2] < b[2])

\* one step of a stable sort: x goes behind every element that is not
\* greater than it
SortedInsert(sorted, x) ==
    LET before == {k \in 1..Len(sorted) :
                      ~TupleLess(get_deadline_priority(x),
                                 get_deadline_priority(sorted[k]))}
        p == Cardinality(before)
    IN  SubSeq(sorted, 1, p) \o <<x>> \o SubSeq(sorted, p + 1, Len(sorted))

RECURSIVE SortByDeadline(_)
\* sorted(results, key=get_deadline_priority): sorted is stable
SortByDeadline(results) ==
    IF results = <<>> THEN <<>>
    ELSE SortedInsert(SortByDeadline(SubSeq(results, 1, Len(results) - 1)),
                      results[Len(results)])

(***************************************************************************)
(* The records of the source adapters of src/api.py.  Of an opportunity    *)
(* the model keeps title, deadline, days_until_deadline and source.  The   *)
(* searches are made with no keywords, and with no French and no Colombian *)
(* region: these filters then keep every record.                           *)
(***************************************************************************)
Opportunity(title, deadline, days, source) ==
    [title |-> title, deadline |-> deadline, days_until_deadline |-> days,
     source |-> source]

\* results[:n]
Take(results, n) ==
    IF n >= 0 THEN SubSeq(results, 1, Min(n, Len(results)))
    ELSE SubSeq(results, 1, Max(0, Len(results) + n))

(***************************************************************************)
(* AidesTerritoriesAPI.search_subventions.                                 *)
(***************************************************************************)
\* the reply of the Aides-Territoires API: a status code, and for a body that
\* is read the exception reading it raises ("" for none) or its results
ApiReply(code, exc, results) ==
    [kind |-> "response", code |-> code, exc |-> exc, results |-> results]

\* session.get raises
ApiFailure(exc) ==
    [kind |-> "exception", code |-> NoStatusCode, exc |-> exc, results |-> <<>>]

\* one aid of the API's results
Aid(name, submission_deadline) ==
    [name |-> name, submission_deadline |-> submission_deadline]

\* _get_sample_french_data with no keywords (titles written without accents)
SampleFrenchData(now) ==
    <<Opportunity("Aide a l'innovation numerique", DateStr("dmy", 2025, 12, 31),
                  CalculateDaysUntilDeadline(DateStr("dmy", 2025, 12, 31), now),
                  "Aides-Territoires (Sample)"),
      Opportunity("Fonds pour la transition ecologique", DateStr("dmy", 2025, 11, 30),
                  CalculateDaysUntilDeadline(DateStr("dmy", 2025, 11, 30), now),
                  "Aides-Territoires (Sample)"),
      Opportunity("Bourse French Tech", DateStr("dmy", 2025, 10, 15),
                  CalculateDaysUntilDeadline(DateStr("dmy", 2025, 10, 15), now),
                  "Aides-Territoires (Sample)")>>

\* the loop body that builds processed_aid
ProcessAid(aid, now) ==
    LET deadline_date == FormatDate(aid.submission_deadline)
    IN  Opportunity(aid.name, deadline_date,
                    CalculateDaysUntilDeadline(deadline_date, now),
                    "Aides-Territoires (France)")

\* what an adapter call gives its caller
Returned(value) ==
    [raised |-> FALSE, exc |-> "", value |-> value]

Raised(exc) ==
    [raised |-> TRUE, exc |-> exc, value |-> <<>>]

\* the except clauses without the final "except Exception"
FrenchExcept_NoCatchAll(exc, now) ==
    IF IsInstance(exc, "RequestException") THEN Returned(SampleFrenchData(now))
    ELSE Raised(exc)

\* except requests.exceptions.RequestException / except Exception
FrenchExcept(exc, now) ==
    IF IsInstance(exc, "RequestException") THEN Returned(SampleFrenchData(now))
    ELSE IF IsInstance(exc, "Exception") THEN Returned(<<>>)
    ELSE Raised(exc)

\* search_subventions(keywords = "", region = "", limit) when the API does o
SearchSubventions(limit, o, now) ==
    IF o.kind = "exception" THEN FrenchExcept(o.exc, now)
    ELSE IF o.code = 401 THEN Returned(SampleFrenchData(now))
    ELSE IF o.code = 429 THEN Returned(<<>>)
    ELSE IF o.code \in 400..599 THEN FrenchExcept("HTTPError", now)
    ELSE IF o.exc # "" THEN FrenchExcept(o.exc, now)
    ELSE Returned([k \in 1..Len(o.results) |-> ProcessAid(o.results[k], now)])

\* the API is sent params['limit'] = limit and answers with at most that
\* many results
HonoursLimit(limit, o) ==
    Len(o.results) <= limit

(***************************************************************************)
(* TEDEuropaAPI.search_european_subventions over DynamicEuropeanAPI.       *)
(***************************************************************************)
\* f'{topic} Innovation Call - {call_id}' for i = 0 .. 9
HorizonTitles ==
    <<\* Artificial Intelligence Innovation Call - HORIZON-DIG-2025-01
      <<"A", "r", "t", "i", "f", "i", "c", "i", "a", "l", " ", "I", "n", "t", "e", "l",
       "l", "i", "g", "e", "n", "c", "e", " ", "I", "n", "n", "o", "v", "a", "t", "i",
       "o", "n", " ", "C", "a", "l", "l", " ", "-", " ", "H", "O", "R", "I", "Z", "O",
       "N", "-", "D", "I", "G", "-", "2", "0", "2", "5", "-", "0", "1">>,
      \* Clean Energy Innovation Call - HORIZON-CLI-2025-02
      <<"C", "l", "e", "a", "n", " ", "E", "n", "e", "r", "g", "y", " ", "I", "n", "n",
       "o", "v", "a", "t", "i", "o", "n", " ", "C", "a", "l", "l", " ", "-", " ", "H",
       "O", "R", "I", "Z", "O", "N", "-", "C", "L", "I", "-", "2", "0", "2", "5", "-",
       "0", "2">>,
      \* Marine Resources Innovation Call - HORIZON-FOO-2025-03
      <<"M", "a", "r", "i", "n", "e", " ", "R", "e", "s", "o", "u", "r", "c", "e", "s",
       " ", "I", "n", "n", "o", "v", "a", "t", "i", "o", "n", " ", "C", "a", "l", "l",
       " ", "-", " ", "H", "O", "R", "I", "Z", "O", "N", "-", "F", "O", "O", "-", "2",
       "0", "2", "5", "-", "0", "3">>,
      \* Mental Health Innovation Call - HORIZON-HEA-2025-04
      <<"M", "e", "n", "t", "a", "l", " ", "H", "e", "a", "l", "t", "h", " ", "I", "n",
       "n", "o", "v", "a", "t", "i", "o", "n", " ", "C", "a", "l", "l", " ", "-", " ",
       "H", "O", "R", "I", "Z", "O", "N", "-", "H", "E", "A", "-", "2", "0", "2", "5",
       "-", "0", "4">>,
      \* Social Innovation Innovation Call - HORIZON-CUL-2025-05
      <<"S", "o", "c", "i", "a", "l", " ", "I", "n", "n", "o", "v", "a", "t", "i", "o",
       "n", " ", "I", "n", "n", "o", "v", "a", "t", "i", "o", "n", " ", "C", "a", "l",
       "l", " ", "-", " ", "H", "O", "R", "I", "Z", "O", "N", "-", "C", "U", "L", "-",
       "2", "0", "2", "5", "-", "0", "5">>,
      \* Quantum Technologies Innovation Call - HORIZON-DIG-2026-06
      <<"Q", "u", "a", "n", "t", "u", "m", " ", "T", "e", "c", "h", "n", "o", "l", "o",
       "g", "i", "e", "s", " ", "I", "n", "n", "o", "v", "a", "t", "i", "o", "n", " ",
       "C", "a", "l", "l", " ", "-", " ", "H", "O", "R", "I", "Z", "O", "N", "-", "D",
       "I", "G", "-", "2", "0", "2", "6", "-", "0", "6">>,
      \* Sustainable Transport Innovation Call - HORIZON-CLI-2026-07
      <<"S", "u", "s", "t", "a", "i", "n", "a", "b", "l", "e", " ", "T", "r", "a", "n",
       "s", "p", "o", "r", "t", " ", "I", "n", "n", "o", "v", "a", "t", "i", "o", "n",
       " ", "C", "a", "l", "l", " ", "-", " ", "H", "O", "R", "I", "Z", "O", "N", "-",
       "C", "L", "I", "-", "2", "0", "2", "6", "-", "0", "7">>,
      \* Biodiversity Innovation Call - HORIZON-FOO-2026-08
      <<"B", "i", "o", "d", "i", "v", "e", "r", "s", "i", "t", "y", " ", "I", "n", "n",
       "o", "v", "a", "t", "i", "o", "n", " ", "C", "a", "l", "l", " ", "-", " ", "H",
       "O", "R", "I", "Z", "O", "N", "-", "F", "O", "O", "-", "2", "0", "2", "6", "-",
       "0", "8">>,
      \* Digital Health Innovation Call - HORIZON-HEA-2026-09
      <<"D", "i", "g", "i", "t", "a", "l", " ", "H", "e", "a", "l", "t", "h", " ", "I",
       "n", "n", "o", "v", "a", "t", "i", "o", "n", " ", "C", "a", "l", "l", " ", "-",
       " ", "H", "O", "R", "I", "Z", "O", "N", "-", "H", "E", "A", "-", "2", "0", "2",
       "6", "-", "0", "9">>,
      \* Cultural Heritage Innovation Call - HORIZON-CUL-2026-10
      <<"C", "u", "l", "t", "u", "r", "a", "l", " ", "H", "e", "r", "i", "t", "a", "g",
       "e", " ", "I", "n", "n", "o", "v", "a", "t", "i", "o", "n", " ", "C", "a", "l",
       "l", " ", "-", " ", "H", "O", "R", "I", "Z", "O", "N", "-", "C", "U", "L", "-",
       "2", "0", "2", "6", "-", "1", "0">>>>

\* opp['program'] + ' - Call for Proposals 2025' of real_opportunities
CuratedTitles ==
    <<\* EIC Accelerator - Call for Proposals 2025
      <<"E", "I", "C", " ", "A", "c", "c", "e", "l", "e", "r", "a", "t", "o", "r", " ",
       "-", " ", "C", "a", "l", "l", " ", "f", "o", "r", " ", "P", "r", "o", "p", "o",
       "s", "a", "l", "s", " ", "2", "0", "2", "5">>,
      \* EUREKA Eurostars - Call for Proposals 2025
      <<"E", "U", "R", "E", "K", "A", " ", "E", "u", "r", "o", "s", "t", "a", "r", "s",
       " ", "-", " ", "C", "a", "l", "l", " ", "f", "o", "r", " ", "P", "r", "o", "p",
       "o", "s", "a", "l", "s", " ", "2", "0", "2", "5">>,
      \* LIFE Environment - Call for Proposals 2025
      <<"L", "I", "F", "E", " ", "E", "n", "v", "i", "r", "o", "n", "m", "e", "n", "t",
       " ", "-", " ", "C", "a", "l", "l", " ", "f", "o", "r", " ", "P", "r", "o", "p",
       "o", "s", "a", "l", "s", " ", "2", "0", "2", "5">>,
      \* Digital Europe Programme - Call for Proposals 2025
      <<"D", "i", "g", "i", "t", "a", "l", " ", "E", "u", "r", "o", "p", "e", " ", "P",
       "r", "o", "g", "r", "a", "m", "m", "e", " ", "-", " ", "C", "a", "l", "l", " ",
       "f", "o", "r", " ", "P", "r", "o", "p", "o", "s", "a", "l", "s", " ", "2", "0",
       "2", "5">>,
      \* Connecting Europe Facility - Call for Proposals 2025
      <<"C", "o", "n", "n", "e", "c", "t", "i", "n", "g", " ", "E", "u", "r", "o", "p",
       "e", " ", "F", "a", "c", "i", "l", "i", "t", "y", " ", "-", " ", "C", "a", "l",
       "l", " ", "f", "o", "r", " ", "P", "r", "o", "p", "o", "s", "a", "l", "s", " ",
       "2", "0", "2", "5">>>>

\* the titles of original_funding + new_countries
ExtendedTitles ==
    <<\* Dutch Innovation Credit (MKB Innovatiestimulering)
      <<"D", "u", "t", "c", "h", " ", "I", "n", "n", "o", "v", "a", "t", "i", "o", "n",
       " ", "C", "r", "e", "d", "i", "t", " ", "(", "M", "K", "B", " ", "I", "n", "n",
       "o", "v", "a", "t", "i", "e", "s", "t", "i", "m", "u", "l", "e", "r", "i", "n",
       "g", ")">>,
      \* Polish National Centre for Research and Development (NCRD)
      <<"P", "o", "l", "i", "s", "h", " ", "N", "a", "t", "i", "o", "n", "a", "l", " ",
       "C", "e", "n", "t", "r", "e", " ", "f", "o", "r", " ", "R", "e", "s", "e", "a",
       "r", "c", "h", " ", "a", "n", "d", " ", "D", "e", "v", "e", "l", "o", "p", "m",
       "e", "n", "t", " ", "(", "N", "C", "R", "D", ")">>,
      \* Polish Digital Poland Programme
      <<"P", "o", "l", "i", "s", "h", " ", "D", "i", "g", "i", "t", "a", "l", " ", "P",
       "o", "l", "a", "n", "d", " ", "P", "r", "o", "g", "r", "a", "m", "m", "e">>,
      \* German ZIM Innovation Programme
      <<"G", "e", "r", "m", "a", "n", " ", "Z", "I", "M", " ", "I", "n", "n", "o", "v",
       "a", "t", "i", "o", "n", " ", "P", "r", "o", "g", "r", "a", "m", "m", "e">>,
      \* Italian Ministry of Economic Development (MISE)
      <<"I", "t", "a", "l", "i", "a", "n", " ", "M", "i", "n", "i", "s", "t", "r", "y",
       " ", "o", "f", " ", "E", "c", "o", "n", "o", "m", "i", "c", " ", "D", "e", "v",
       "e", "l", "o", "p", "m", "e", "n", "t", " ", "(", "M", "I", "S", "E", ")">>,
      \* French Innovation Agency (BPI France)
      <<"F", "r", "e", "n", "c", "h", " ", "I", "n", "n", "o", "v", "a", "t", "i", "o",
       "n", " ", "A", "g", "e", "n", "c", "y", " ", "(", "B", "P", "I", " ", "F", "r",
       "a", "n", "c", "e", ")">>,
      \* Austrian Research Promotion Agency (FFG)
      <<"A", "u", "s", "t", "r", "i", "a", "n", " ", "R", "e", "s", "e", "a", "r", "c",
       "h", " ", "P", "r", "o", "m", "o", "t", "i", "o", "n", " ", "A", "g", "e", "n",
       "c", "y", " ", "(", "F", "F", "G", ")">>,
      \* Enterprise Ireland Innovation Funding
      <<"E", "n", "t", "e", "r", "p", "r", "i", "s", "e", " ", "I", "r", "e", "l", "a",
       "n", "d", " ", "I", "n", "n", "o", "v", "a", "t", "i", "o", "n", " ", "F", "u",
       "n", "d", "i", "n", "g">>,
      \* Belgian VLAIO Innovation Support (Flanders)
      <<"B", "e", "l", "g", "i", "a", "n", " ", "V", "L", "A", "I", "O", " ", "I", "n",
       "n", "o", "v", "a", "t", "i", "o", "n", " ", "S", "u", "p", "p", "o", "r", "t",
       " ", "(", "F", "l", "a", "n", "d", "e", "r", "s", ")">>>>

\* "Quantum Art"
T_quantum ==
    <<"Q", "u", "a", "n", "t", "u", "m", " ", "A", "r", "t">>

\* "QUANTUM ART"
T_QUANTUM ==
    <<"Q", "U", "A", "N", "T", "U", "M", " ", "A", "R", "T">>

\* "eic accelerator - call for proposals 2025"
T_eic_lower ==
    <<"e", "i", "c", " ", "a", "c", "c", "e", "l", "e", "r", "a", "t", "o", "r", " ",
      "-", " ", "c", "a", "l", "l", " ", "f", "o", "r", " ", "p", "r", "o", "p", "o",
      "s", "a", "l", "s", " ", "2", "0", "2", "5">>

\* f"EU Research Project #{i+1}", the title of a project that has none
\* (i + 1 has one digit: at most MaxLimit \div 4 projects are read)
ProjectTitle(n) ==
    <<"E", "U", " ", "R", "e", "s", "e", "a", "r", "c", "h", " ", "P", "r", "o", "j",
      "e", "c", "t", " ", "#">> \o <<ToString(n)>>

\* the days_until_deadline written in original_funding + new_countries
ExtendedDays == <<365, 180, 270, 365, 120, 365, 200, 300, 250>>

\* deadline_months of real_opportunities
CuratedMonths == <<4, 6, 8, 5, 10>>

\* the reply of the OpenAIRE API: a status code, the exception raised inside
\* the try ("" for none), and for each project the title _safe_extract finds
\* (<<>> when it finds none)
OpenAireReply(code, exc, titles) ==
    [code |-> code, exc |-> exc, titles |-> titles]

\* the date of now, as the "dmy" string strftime('%d/%m/%Y') writes
Today(now) ==
    DateStr("dmy", now.y, now.m, now.d)

\* (deadline_date - datetime.now()).days for deadline_date = an earlier
\* datetime.now() + timedelta(days): one day less once the clock has advanced
DaysLeft(days, elapsed) ==
    IF elapsed THEN days - 1 ELSE days

\* _search_openaire_projects(keywords, limit)
SearchOpenaireProjects(limit, o, now) ==
    IF o.exc # "" \/ o.code # 200 THEN <<>>
    ELSE LET projects == Take(o.titles, limit)
         IN  [k \in 1..Len(projects) |->
                 LET n == k - 1
                     end_year == (2023 + (n % 3)) + 2 + (n % 3)
                     deadline == DateStr("dmy", end_year, 12, 31)
                 IN  Opportunity(IF projects[k] = <<>> THEN ProjectTitle(k) ELSE projects[k],
                                 deadline, CalculateDaysUntilDeadline(deadline, now),
                                 "OpenAIRE (Live API)")]

\* _generate_horizon_calls(keywords, limit)
GenerateHorizonCalls(limit, now, elapsed) ==
    [k \in 1..Max(0, Min(limit, 10)) |->
        LET n == k - 1
            months_ahead == 3 + ((n * 2) % 15)
        IN  Opportunity(HorizonTitles[k], PlusDays(Today(now), 30 * months_ahead),
                        DaysLeft(30 * months_ahead, elapsed),
                        "Horizon Europe (Live Program)")]

\* _get_curated_real_opportunities(keywords, limit)
CuratedRealOpportunities(limit, now, elapsed) ==
    [k \in 1..Len(Take(CuratedMonths, limit)) |->
        Opportunity(CuratedTitles[k], PlusDays(Today(now), 30 * CuratedMonths[k]),
                    DaysLeft(30 * CuratedMonths[k], elapsed), "EU Programme (Live)")]

\* _get_extended_country_funding(keywords, limit): every deadline is a text
\* such as 'Rolling applications'
ExtendedCountryFunding(limit) ==
    [k \in 1..Len(Take(ExtendedDays, limit)) |->
        Opportunity(ExtendedTitles[k], TextStr, ExtendedDays[k], "Extended")]

\* search_dynamic_european_data(keywords, limit); its link validation adds
\* link_status and link_active to each record and removes none
SearchDynamicEuropeanData(limit, o, now, elapsed) ==
    Take(SearchOpenaireProjects(limit \div 4, o, now)
             \o GenerateHorizonCalls(limit \div 4, now, elapsed)
             \o CuratedRealOpportunities(limit \div 4, now, elapsed)
             \o ExtendedCountryFunding(limit \div 4),
         limit)

\* a region argument: a str, or a value of another type
RegionArg(type, value) ==
    [type |-> type, value |-> value]

\* _filter_by_region(results, region): with no region, or nothing to filter,
\* the results are returned as they are; region.upper() raises for a region
\* that is no str (a non-empty str region is not among the inputs)
FilterByRegion(results, region) ==
    IF region.value = "" \/ results = <<>> THEN Returned(results)
    ELSE IF region.type # "str" THEN Raised("AttributeError")
    ELSE Returned(results)

\* the title compared as it is written
TitleKey_CaseSensitive(title) ==
    title

\* title_lower = result['title'].lower()
TitleKey(title) ==
    Lower(title)

RECURSIVE UniqueResults(_, _, _)
\* the loop over all_results from position k on: seen_titles, unique_results
UniqueResults(all_results, k, acc) ==
    IF k > Len(all_results) THEN acc.unique_results
    ELSE LET title_lower == TitleKey(all_results[k].title)
         IN  IF title_lower \notin acc.seen_titles
             THEN UniqueResults(all_results, k + 1,
                                [seen_titles |-> acc.seen_titles \cup {title_lower},
                                 unique_results |->
                                     Append(acc.unique_results, all_results[k])])
             ELSE UniqueResults(all_results, k + 1, acc)

\* search_european_subventions(keywords = "", region, limit)
SearchEuropeanSubventions(region, limit, o, now, elapsed) ==
    LET all_results == SearchDynamicEuropeanData(limit, o, now, elapsed)
        filtered == IF region.value # "" THEN FilterByRegion(all_results, region)
                    ELSE Returned(all_results)
    IN  IF filtered.raised THEN filtered
        ELSE Returned(Take(UniqueResults(filtered.value, 1,
                                         [seen_titles |-> {}, unique_results |-> <<>>]),
                           limit))

(***************************************************************************)
(* SubventionSearcher.search_colombian_funding.                            *)
(***************************************************************************)
\* title and deadline of culture_opportunities (titles written without accents)
CultureOpportunities ==
    <<<<"Programa Nacional de Estimulos - Artes Visuales", DateStr("ymd", 2025, 9, 15)>>,
      <<"Becas de Creacion Artistica - Bogota", DateStr("ymd", 2025, 10, 30)>>,
      <<"Fondo de Desarrollo Cinematografico - PROIMAGENES", DateStr("ymd", 2025, 11, 20)>>,
      <<"Convocatoria Artistas Jovenes - Medellin", DateStr("ymd", 2025, 8, 25)>>,
      <<"Programa de Emprendimiento Cultural - INNPULSA", DateStr("ymd", 2025, 12, 15)>>,
      <<"Residencias Artisticas - Cali", DateStr("ymd", 2025, 9, 8)>>,
      <<"Becas de Investigacion Cultural - COLCIENCIAS", DateStr("ymd", 2025, 11, 30)>>,
      <<"Fondo de Artes Escenicas - Barranquilla", DateStr("ymd", 2025, 10, 10)>>,
      <<"Programa Nacional de Bandas - Musica", DateStr("ymd", 2025, 11, 5)>>,
      <<"Convocatoria de Literatura - Cartagena", DateStr("ymd", 2025, 9, 20)>>>>

\* search_colombian_funding(keywords = "", region = "", limit): "if limit:"
\* cuts the list only for a limit that is not 0
SearchColombianFunding(limit, now) ==
    LET results == [k \in 1..Len(CultureOpportunities) |->
                       Opportunity(CultureOpportunities[k][1], CultureOpportunities[k][2],
                                   CalculateDaysUntil(CultureOpportunities[k][2], now),
                                   "Colombia")]
    IN  IF limit # 0 THEN Take(results, limit) ELSE results

(***************************************************************************)
(* SubventionSearcher.search_all.                                          *)
(***************************************************************************)
\* the largest limit a search is called with
MaxLimit == 16

Limits == 0..MaxLimit

\* european_region: no region, or a list where a str is expected
RegionArgs ==
    {RegionArg("str", ""), RegionArg("list", "DE")}

\* datetime.now(): 1 August 2025 during the day, 5 November 2025 at 00:00
Nows ==
    {[y |-> 2025, m |-> 8, d |-> 1, midnight |-> FALSE],
     [y |-> 2025, m |-> 11, d |-> 5, midnight |-> TRUE]}

\* what the Aides-Territoires API may do
FrenchReplies ==
    {ApiReply(200, "", <<>>),
     ApiReply(200, "", <<Aid("Sans date", EmptyStr),
                         Aid("Lointaine", DateStr("ymd", 2030, 6, 30))>>),
     ApiReply(200, "", <<Aid("Septembre A", DateStr("ymdT", 2025, 9, 10)),
                         Aid("Septembre B", DateStr("dmy", 2025, 9, 10)),
                         Aid("Passee", DateStr("ymd", 2025, 1, 15))>>),
     ApiReply(200, "", <<Aid("Texte", TextStr),
                         Aid("Nulle", NoneStr),
                         Aid("Fevrier", DateStr("ymd", 2026, 2, 30)),
                         Aid("Octobre", DateStr("ymd", 2025, 10, 1))>>),
     ApiReply(200, "JSONDecodeError", <<>>),
     ApiReply(200, "AttributeError", <<>>),
     ApiReply(401, "", <<>>),
     ApiReply(429, "", <<>>),
     ApiReply(503, "", <<>>),
     ApiFailure("ConnectTimeout"),
     ApiFailure("ConnectionError")}

\* what the OpenAIRE API may do
OpenAireReplies ==
    {OpenAireReply(200, "", <<T_eic_lower, T_QUANTUM>>),
     OpenAireReply(200, "", <<<<>>, T_quantum>>),
     OpenAireReply(200, "", <<T_quantum, T_QUANTUM, T_quantum>>),
     OpenAireReply(200, "ValueError", <<>>),
     OpenAireReply(503, "", <<>>)}

\* active_searches without the Colombian search
ActiveSearches_NoColombian(include_european, include_colombian) ==
    1 + (IF include_european THEN 1 ELSE 0)

\* active_searches
ActiveSearches(include_european, include_colombian) ==
    1 + (IF include_european THEN 1 ELSE 0) + (IF include_colombian THEN 1 ELSE 0)

\* the record of one adapter call
AdapterCall(name, limit) ==
    [adapter |-> name, limit |-> limit]

\* where search_all goes on after the French and after the European search
AfterFrench(args) ==
    IF args.include_european THEN "european"
    ELSE IF args.include_colombian THEN "colombian" ELSE "sort"

AfterEuropean(args) ==
    IF args.include_colombian THEN "colombian" ELSE "sort"

\* what an adapter call leaves in the locals of search_all: its list in
\* results, or the exception, which search_all does not catch
AfterCall(name, reply, r, next) ==
    IF r.raised
    THEN [search EXCEPT !.pc = "raised", !.exc = r.exc,
                        !.calls = Append(@, AdapterCall(name, search.search_limit)),
                        !.replies = Append(@, reply)]
    ELSE [search EXCEPT !.pc = next,
                        !.results[name] = r.value,
                        !.adapter[name] = r.value,
                        !.calls = Append(@, AdapterCall(name, search.search_limit)),
                        !.replies = Append(@, reply)]

\* search_all(...) up to search_limit
SearchStart(include_european, include_colombian, limit, region, now) ==
    /\ search.pc = "idle"
    /\ search' = [NoSearch EXCEPT
                     !.pc = "french",
                     !.args = [include_european |-> include_european,
                               include_colombian |-> include_colombian,
                               limit |-> limit, european_region |-> region],
                     !.now = now,
                     !.search_limit =
                         limit \div ActiveSearches(include_european, include_colombian)]
    /\ UNCHANGED <<pc, original_url, fix_result, i, domain_fixes, j, calls, vcall,
                   batch, analysis, export>>

\* results['french'] = self.french_api.search_subventions(...)
SearchFrench(o) ==
    /\ search.pc = "french"
    /\ HonoursLimit(search.search_limit, o)
    /\ search' = AfterCall("french", o,
                           SearchSubventions(search.search_limit, o, search.now),
                           AfterFrench(search.args))
    /\ UNCHANGED <<pc, original_url, fix_result, i, domain_fixes, j, calls, vcall,
                   batch, analysis, export>>

\* results['european'] = self.european_api.search_european_subventions(...)
SearchEuropean(o, elapsed) ==
    /\ search.pc = "european"
    /\ search' = [AfterCall("european", o,
                            SearchEuropeanSubventions(search.args.european_region,
                                                      search.search_limit, o, search.now,
                                                      elapsed),
                            AfterEuropean(search.args))
                  EXCEPT !.all_results =
                             SearchDynamicEuropeanData(search.search_limit, o,
                                                       search.now, elapsed)]
    /\ UNCHANGED <<pc, original_url, fix_result, i, domain_fixes, j, calls, vcall,
                   batch, analysis, export>>

\* results['colombian'] = self.search_colombian_funding(...)
SearchColombian ==
    /\ search.pc = "colombian"
    /\ search' = AfterCall("colombian", "static",
                           Returned(SearchColombianFunding(search.search_limit,
                                                           search.now)),
                           "sort")
    /\ UNCHANGED <<pc, original_url, fix_result, i, domain_fixes, j, calls, vcall,
                   batch, analysis, export>>

\* the three lists are sorted and results is returned
SearchSort ==
    /\ search.pc = "sort"
    /\ search' = [search EXCEPT
                     !.pc = "returned",
                     !.results = [french |-> SortByDeadline(@.french),
                                  european |-> SortByDeadline(@.european),
                                  colombian |-> SortByDeadline(@.colombian)]]
    /\ UNCHANGED <<pc, original_url, fix_result, i, domain_fixes, j, calls, vcall,
                   batch, analysis, export>>

\* the caller has the dictionary, or the exception; the next search may start
SearchReturn ==
    /\ search.pc \in {"returned", "raised"}
    /\ search' = NoSearch
    /\ UNCHANGED <<pc, original_url, fix_result, i, domain_fixes, j, calls, vcall,
                   batch, analysis, export>>

SearchNext ==
    \/ \E ie \in BOOLEAN, ic \in BOOLEAN, limit \in Limits, region \in RegionArgs,
          now \in Nows : SearchStart(ie, ic, limit, region, now)
    \/ \E o \in FrenchReplies : SearchFrench(o)
    \/ \E o \in OpenAireReplies, elapsed \in BOOLEAN : SearchEuropean(o, elapsed)
    \/ SearchColombian
    \/ SearchSort
    \/ SearchReturn

SearchSpec == Init /\ [][SearchNext]_vars

\* C12: search_all calls exactly the active adapters, in the order French,
\* European, Colombian: French always, European iff include_european,
\* Colombian iff include_colombian, each with limit // n where n in {1, 2, 3}
\* is the number of active sources; the list of an inactive source is empty
\* in the returned dictionary.
C12_ActiveAdaptersAndShares ==
    LET a == search.args
        n == Cardinality({"french"}
                         \cup (IF a.include_european THEN {"european"} ELSE {})
                         \cup (IF a.include_colombian THEN {"colombian"} ELSE {}))
        share == a.limit \div n
        expected == <<AdapterCall("french", share)>>
                    \o (IF a.include_european
                        THEN <<AdapterCall("european", share)>> ELSE <<>>)
                    \o (IF a.include_colombian
                        THEN <<AdapterCall("colombian", share)>> ELSE <<>>)
    IN  (search.pc # "idle")
        => /\ n \in {1, 2, 3}
           /\ Len(search.calls) <= Len(expected)
           /\ \A k \in 1..Len(search.calls) : search.calls[k] = expected[k]
           /\ (search.pc \in {"sort", "returned"}) => search.calls = expected
           /\ (search.pc = "returned" /\ ~a.include_european)
                  => search.results.european = <<>>
           /\ (search.pc = "returned" /\ ~a.include_colombian)
                  => search.results.colombian = <<>>

\* C12 happens: a search with all three sources and limit 16 has returned,
\* each adapter called with limit 5.
C12_Witness ==
    /\ search.pc = "returned"
    /\ search.args.include_european
    /\ search.args.include_colombian
    /\ search.args.limit = 16
    /\ Len(search.calls) = 3
    /\ search.calls[3] = AdapterCall("colombian", 5)

\* C13: of a search with limit L and n active sources, each returned list has
\* at most L // n records and the three lists together at most L, whether the
\* French adapter answers from the API or from its sample data, for every
\* L >= 0.
C13_ListsWithinShares ==
    LET a == search.args
        n == Cardinality({"french"}
                         \cup (IF a.include_european THEN {"european"} ELSE {})
                         \cup (IF a.include_colombian THEN {"colombian"} ELSE {}))
        share == a.limit \div n
        r == search.results
    IN  (search.pc = "returned")
        => /\ Len(r.french) <= share
           /\ Len(r.european) <= share
           /\ Len(r.colombian) <= share
           /\ Len(r.french) + Len(r.european) + Len(r.colombian) <= a.limit

\* C14: each list search_all returns is a permutation of what its adapter
\* returned; of two adjacent records a, b the bucket of a (1 for fewer than
\* 30 days, 2 for fewer than 90, else 3) is at most the bucket of b, and in
\* equal buckets the days of a are at most the days of b; records with equal
\* days keep the order the adapter gave them.
C14_SortedStablePermutation ==
    LET bucket(rec) == IF rec.days_until_deadline < 30 THEN 1
                       ELSE IF rec.days_until_deadline < 90 THEN 2 ELSE 3
        days(rec) == rec.days_until_deadline
        \* the place of the adapter's k-th record: behind the records with fewer
        \* days and behind the earlier records with the same days
        place(a, k) == Cardinality({x \in 1..Len(a) : days(a[x]) < days(a[k])})
                       + Cardinality({x \in 1..k : days(a[x]) = days(a[k])})
    IN  (search.pc = "returned")
        => \A m \in {"french", "european", "colombian"} :
              LET a == search.adapter[m]
                  r == search.results[m]
              IN  /\ Len(r) = Len(a)
                  /\ \A k \in 1..Len(a) : r[place(a, k)] = a[k]
                  /\ \A k \in 1..(Len(r) - 1) :
                        /\ bucket(r[k]) <= bucket(r[k + 1])
                        /\ (bucket(r[k]) = bucket(r[k + 1]))
                              => days(r[k]) <= days(r[k + 1])

\* C14 happens: a returned French list that the sort has reordered and that
\* holds two records with the same number of days
C14_Witness ==
    /\ search.pc = "returned"
    /\ search.results.french # search.adapter.french
    /\ \E x, y \in 1..Len(search.adapter.french) :
          /\ x < y
          /\ search.adapter.french[x].days_until_deadline
                = search.adapter.french[y].days_until_deadline
          /\ search.adapter.french[x] # search.adapter.french[y]

\* C15: in every list sorted by _sort_by_deadline a record with no parseable
\* deadline (sentinel 999) comes after every record that has a concrete
\* deadline, however many days that record has left.
C15_NoDeadlineSortsLast ==
    LET concrete(rec) == Parses(rec.deadline, "dmy") \/ Parses(rec.deadline, "ymd")
    IN  (search.pc = "returned")
        => \A m \in {"french", "european", "colombian"} :
              LET r == search.results[m]
              IN  \A x, y \in 1..Len(r) :
                     (/\ r[x].days_until_deadline = NoDeadlineDays
                      /\ ~concrete(r[x])
                      /\ concrete(r[y]))
                     => y < x

\* C16: every record the French, European and Colombian adapters produce has
\* days_until_deadline >= 0; a deadline already past gives 0, and an absent or
\* unparsable deadline gives exactly the sentinel 999.
C16_DaysNonNegativeOrSentinel ==
    LET concrete(rec) == Parses(rec.deadline, "dmy") \/ Parses(rec.deadline, "ymd")
    IN  \A m \in {"french", "european", "colombian"} :
           \A k \in 1..Len(search.adapter[m]) :
              LET rec == search.adapter[m][k]
              IN  /\ rec.days_until_deadline >= 0
                  /\ (concrete(rec) /\ DeltaDays(rec.deadline, search.now) < 0)
                        => rec.days_until_deadline = 0
                  /\ ~concrete(rec) => rec.days_until_deadline = NoDeadlineDays

(***************************************************************************)
(* create_analysis_log: the URLs of the results are collected and          *)
(* validated.  Of a result the model keeps url, title, source, perimeter.  *)
(***************************************************************************)
\* how many records a source list of the analysed results holds at most
MaxAnalysis == 2

\* the one character U+20AC of a Python string
EuroSign == "<euro>"

\* the value under the key 'amount_max' of a result: a str, an int, or no
\* such key in the dictionary
AmountStr(chars) ==
    [type |-> "str", chars |-> chars, n |-> 0]

AmountInt(n) ==
    [type |-> "int", chars |-> <<>>, n |-> n]

AmountAbsent ==
    [type |-> "absent", chars |-> <<>>, n |-> 0]

\* the value under the key 'days_until_deadline': <<n>>, or <<>> for a
\* dictionary without the key
SearchResult(url, title, source, perimeter, amount_max, days_until_deadline) ==
    [url |-> url, title |-> title, source |-> source, perimeter |-> perimeter,
     amount_max |-> amount_max, days_until_deadline |-> days_until_deadline]

\* the records the three lists are made of: URLs shared inside a list and
\* between lists, an empty URL, and two URLs that differ in one character;
\* amounts "50,000", "", "<euro>1,200 EUR", "N/A", none (the Colombian
\* records of src/api.py have no amount_max) and the int 75000
FrenchResultPool ==
    <<SearchResult(Url_culture, "Aide A", "Aides-Territoires (France)", "France",
                   AmountStr(<<"5", "0", ",", "0", "0", "0">>), <<7>>),
      SearchResult(Url_empty, "Aide B", "Aides-Territoires (France)", "Bretagne",
                   AmountStr(<<>>), <<30>>)>>

EuropeanResultPool ==
    <<SearchResult(Url_culture, "Call A", "EU Programme (Live)", "European Union",
                   AmountStr(<<EuroSign, "1", ",", "2", "0", "0", " ", "E", "U", "R">>),
                   <<31>>),
      SearchResult(Url_typo, "Call B", "Horizon Europe (Live Program)", "Europe",
                   AmountStr(<<"N", "/", "A">>), <<90>>)>>

ColombianResultPool ==
    <<SearchResult(Url_typo_fixed, "Beca A", "MinCultura", "Colombia",
                   AmountAbsent, <<91>>),
      SearchResult(Url_culture, "Beca B", "IDARTES", "Bogota",
                   AmountInt(75000), <<>>)>>

ResultLists(pool) ==
    ListsUpTo({pool[k] : k \in 1..Len(pool)}, MaxAnalysis)

\* what the GET of a validation called by the analysis may do
AnalysisOutcomes == {OutcomePool[1], OutcomePool[2], OutcomePool[3]}

\* only the entry appended last is compared
AlreadyListed_LastOnly(url, urls_to_validate) ==
    /\ urls_to_validate # <<>>
    /\ urls_to_validate[Len(urls_to_validate)].url = url

\* url in [r['url'] for r in urls_to_validate]
AlreadyListed(url, urls_to_validate) ==
    \E k \in 1..Len(urls_to_validate) : urls_to_validate[k].url = url

RECURSIVE UrlsToValidate(_, _, _)
\* the loop over all_results from position k on
UrlsToValidate(all_results, k, urls_to_validate) ==
    IF k > Len(all_results) THEN urls_to_validate
    ELSE LET result == all_results[k]
         IN  IF result.url # <<>> /\ ~AlreadyListed(result.url, urls_to_validate)
             THEN UrlsToValidate(all_results, k + 1,
                                 Append(urls_to_validate,
                                        [url |-> result.url, title |-> result.title,
                                         source |-> result.source,
                                         country |-> result.perimeter]))
             ELSE UrlsToValidate(all_results, k + 1, urls_to_validate)

\* str.strip() of a string whose only whitespace is the space
Strip(s) ==
    IF \A k \in 1..Len(s) : s[k] = " " THEN <<>>
    ELSE LET first == CHOOSE k \in 1..Len(s) :
                         s[k] # " " /\ \A m \in 1..(k - 1) : s[m] = " "
             last == CHOOSE k \in 1..Len(s) :
                        s[k] # " " /\ \A m \in (k + 1)..Len(s) : s[m] = " "
         IN  SubSeq(s, first, last)

\* str.isdigit() of a string of ASCII characters
IsDigitStr(s) ==
    s # <<>> /\ \A k \in 1..Len(s) : s[k] \in Digits

DigitValue(c) ==
    CHOOSE n \in 0..9 : ToString(n) = c

RECURSIVE ParseDigits(_)
\* float(s) of a string of digits: a whole number
ParseDigits(s) ==
    IF s = <<>> THEN 0
    ELSE 10 * ParseDigits(SubSeq(s, 1, Len(s) - 1)) + DigitValue(s[Len(s)])

\* result.get('amount_max', '0')
GetAmountMax(result) ==
    IF result.amount_max.type = "absent" THEN AmountStr(<<"0">>) ELSE result.amount_max

\* the body of the loop over all_results: the amounts this result appends.
\* A non-empty value that is no str has no isdigit: the AttributeError is
\* caught by the bare except and the result is skipped
AmountsOf(result) ==
    LET got == GetAmountMax(result)
        amount_max == IF got.type = "str"
                      THEN Strip(Replace(Replace(Replace(got.chars, <<",">>, <<>>),
                                                 <<EuroSign>>, <<>>),
                                         <<"E", "U", "R">>, <<>>))
                      ELSE <<>>
    IN  IF got.type = "str" /\ amount_max # <<>> /\ IsDigitStr(amount_max)
        THEN <<ParseDigits(amount_max)>>
        ELSE <<>>

RECURSIVE Amounts(_)
Amounts(all_results) ==
    IF all_results = <<>> THEN <<>>
    ELSE Amounts(SubSeq(all_results, 1, Len(all_results) - 1))
         \o AmountsOf(all_results[Len(all_results)])

RECURSIVE Sum(_)
Sum(amounts) ==
    IF amounts = <<>> THEN 0
    ELSE Sum(SubSeq(amounts, 1, Len(amounts) - 1)) + amounts[Len(amounts)]

\* r.get('days_until_deadline', 999)
GetDays(r) ==
    IF r.days_until_deadline = <<>> THEN NoDeadlineDays ELSE r.days_until_deadline[1]

InMedium90_FromThirty(r) == 30 <= GetDays(r) /\ GetDays(r) <= 90

\* 30 < r.get('days_until_deadline', 999) <= 90
InMedium90(r) == 30 < GetDays(r) /\ GetDays(r) <= 90

\* create_analysis_log(results, ...) up to the validation loop: the
\* statistics of all_results, then urls_to_validate
AnalysisStart(results, auto_fix_urls) ==
    /\ analysis.pc = "idle"
    /\ LET all_results == results.french \o results.european \o results.colombian
           urls_to_validate == UrlsToValidate(all_results, 1, <<>>)
           amounts == Amounts(all_results)
           total_funding == IF amounts # <<>> THEN Sum(amounts) ELSE 0
           In7(r) == GetDays(r) <= 7
           In30(r) == GetDays(r) <= 30
           Beyond(r) == GetDays(r) > 90
       IN  analysis' = [NoAnalysis EXCEPT
               !.pc = IF urls_to_validate = <<>> THEN "done" ELSE "validate",
               !.results = results,
               !.auto_fix_urls = auto_fix_urls,
               !.all_results = all_results,
               !.urgent_7 = SelectSeq(all_results, In7),
               !.urgent_30 = SelectSeq(all_results, In30),
               !.medium_90 = SelectSeq(all_results, InMedium90),
               !.distant = SelectSeq(all_results, Beyond),
               !.amounts = amounts,
               !.total_funding = total_funding,
               !.avg_funding = IF amounts # <<>>
                               THEN [num |-> total_funding, den |-> Len(amounts)]
                               ELSE [num |-> 0, den |-> 1],
               !.max_funding = IF amounts # <<>>
                               THEN CHOOSE a \in {amounts[k] : k \in 1..Len(amounts)} :
                                       \A k \in 1..Len(amounts) : amounts[k] <= a
                               ELSE 0,
               !.min_funding = IF amounts # <<>>
                               THEN CHOOSE a \in {amounts[k] : k \in 1..Len(amounts)} :
                                       \A k \in 1..Len(amounts) : a <= amounts[k]
                               ELSE 0,
               !.urls_to_validate = urls_to_validate,
               !.i = 1]
    /\ UNCHANGED <<pc, original_url, fix_result, i, domain_fixes, j, calls, vcall,
                   batch, search, export>>

AnalysisExcept_Reraise(a) == [a EXCEPT !.pc = "raised"]

\* except Exception as e: the error is logged and shown, None is returned
AnalysisExcept(a) == [a EXCEPT !.pc = "returned", !.returned = None]

Classify_AllWorking(validation) == TRUE

\* if validation['is_working']: working_urls, else: broken_urls
Classify(validation) == validation.is_working

\* one pass of the validation loop; an exception leaving validate_url ends
\* the function in its except clause
AnalysisValidate(o) ==
    /\ analysis.pc = "validate"
    /\ analysis.i \in 1..Len(analysis.urls_to_validate)
    /\ LET url_info == analysis.urls_to_validate[analysis.i]
           call == Call(url_info.url, DefaultTimeout, o)
           validation == [title |-> url_info.title, source |-> url_info.source,
                          country |-> url_info.country] @@ call.result
       IN  /\ vcall' = call
           /\ analysis' =
                 IF call.raised
                 THEN AnalysisExcept([analysis EXCEPT
                                         !.validated = Append(@, url_info.url)])
                 ELSE [analysis EXCEPT
                         !.pc = IF analysis.i = Len(analysis.urls_to_validate)
                                THEN "done" ELSE "validate",
                         !.i = @ + 1,
                         !.validated = Append(@, url_info.url),
                         !.url_validation_results = Append(@, validation),
                         !.working_urls = IF Classify(validation)
                                          THEN Append(@, validation) ELSE @,
                         !.broken_urls = IF Classify(validation)
                                         THEN @ ELSE Append(@, validation)]
    /\ UNCHANGED <<pc, original_url, fix_result, i, domain_fixes, j, calls, batch,
                   search, export>>

\* "Save to JSON file": an OSError ends the function in its except clause,
\* which returns None
AnalysisWriteJson(io) ==
    /\ analysis.pc = "done"
    /\ analysis' = IF io = "ok"
                   THEN [analysis EXCEPT !.pc = "json", !.json = "complete"]
                   ELSE AnalysisExcept([analysis EXCEPT !.json = FileAfter(io)])
    /\ UNCHANGED <<pc, original_url, fix_result, i, domain_fixes, j, calls, vcall,
                   batch, search, export>>

\* the human-readable twin: its URGENCY BREAKDOWN divides by total_results
\* with no test for 0, so with no result the ZeroDivisionError leaves the
\* file incomplete and the function returns None
AnalysisWriteTxt(io) ==
    /\ analysis.pc = "json"
    /\ analysis' = IF io # "ok"
                   THEN AnalysisExcept([analysis EXCEPT !.txt = FileAfter(io)])
                   ELSE IF Len(analysis.all_results) = 0
                   THEN AnalysisExcept([analysis EXCEPT !.txt = "partial"])
                   ELSE [analysis EXCEPT !.pc = "written", !.txt = "complete"]
    /\ UNCHANGED <<pc, original_url, fix_result, i, domain_fixes, j, calls, vcall,
                   batch, search, export>>

StartsRepair_IgnoresFlag(a) ==
    /\ Len(a.url_validation_results) > 0
    /\ Len(a.broken_urls) > 0
    /\ a.broken_urls # <<>>

\* if total_urls_tested > 0: if broken_count > 0: if auto_fix_urls and
\* broken_urls:
StartsRepair(a) ==
    /\ Len(a.url_validation_results) > 0
    /\ Len(a.broken_urls) > 0
    /\ a.auto_fix_urls
    /\ a.broken_urls # <<>>

\* create_url_fix_log(broken_urls, fix_log_filename) is called under the
\* tests of StartsRepair; otherwise log_path is returned
AnalysisAutoFix ==
    /\ analysis.pc = "written"
    /\ pc = "idle"
    /\ IF StartsRepair(analysis)
       THEN /\ batch' = BatchBegin(analysis.broken_urls)
            /\ analysis' = [analysis EXCEPT !.pc = "autofix"]
       ELSE /\ analysis' = [analysis EXCEPT !.pc = "returned", !.returned = "log_path"]
            /\ UNCHANGED batch
    /\ UNCHANGED <<pc, original_url, fix_result, i, domain_fixes, j, calls, vcall,
                   search, export>>

\* create_url_fix_log has returned fix_log_path; log_path is returned
AnalysisResume ==
    /\ analysis.pc = "autofix"
    /\ batch.pc = "returned"
    /\ analysis' = [analysis EXCEPT !.pc = "returned", !.returned = "log_path",
                                    !.fix_log_path = batch.returned]
    /\ UNCHANGED <<pc, original_url, fix_result, i, domain_fixes, j, calls, vcall,
                   batch, search, export>>

\* the caller has the path, None, or the exception: nothing is running
AnalysisReturn ==
    /\ analysis.pc \in {"returned", "raised"}
    /\ analysis' = NoAnalysis
    /\ batch' = NoBatch
    /\ vcall' = NoCall
    /\ UNCHANGED <<pc, original_url, fix_result, i, domain_fixes, j, calls, search, export>>

\* create_analysis_log(results, search_params, filename): auto_fix_urls has
\* its default, False
AnalysisNext ==
    \/ \E f \in ResultLists(FrenchResultPool), e \in ResultLists(EuropeanResultPool),
          c \in ResultLists(ColombianResultPool) :
          AnalysisStart([french |-> f, european |-> e, colombian |-> c], FALSE)
    \/ \E o \in AnalysisOutcomes : AnalysisValidate(o)
    \/ \E io \in WriteOutcomes : AnalysisWriteJson(io)
    \/ \E io \in WriteOutcomes : AnalysisWriteTxt(io)
    \/ AnalysisAutoFix
    \/ AnalysisReturn

AnalysisSpec == Init /\ [][AnalysisNext]_vars

(***************************************************************************)
(* create_analysis_log with auto_fix_urls given by the caller: the broken  *)
(* URLs are handed to create_url_fix_log.                                  *)
(***************************************************************************)
\* how many records a source list holds at most when auto-fix may be asked
MaxAutoFix == 1

AutoFixLists(pool) ==
    ListsUpTo({pool[k] : k \in 1..Len(pool)}, MaxAutoFix)

\* what the GET of a validation made by the repair may do: a URL found
\* broken is still not found
AutoFixOutcomes == {OutcomePool[2]}

AutoFixNext ==
    \/ \E f \in AutoFixLists(FrenchResultPool), e \in AutoFixLists(EuropeanResultPool),
          c \in AutoFixLists(ColombianResultPool), auto_fix_urls \in BOOLEAN :
          AnalysisStart([french |-> f, european |-> e, colombian |-> c], auto_fix_urls)
    \/ \E o \in AnalysisOutcomes : AnalysisValidate(o)
    \/ \E io \in WriteOutcomes : AnalysisWriteJson(io)
    \/ \E io \in WriteOutcomes : AnalysisWriteTxt(io)
    \/ AnalysisAutoFix
    \/ \E o \in AutoFixOutcomes : analysis.pc = "autofix" /\ BatchAttempt(o)
    \/ \E o \in AutoFixOutcomes :
          analysis.pc = "autofix" /\ batch.pc = "loop" /\ GenericStep(o) /\ Standalone
    \/ analysis.pc = "autofix" /\ batch.pc = "loop" /\ DomainBuild /\ Standalone
    \/ \E o \in AutoFixOutcomes :
          analysis.pc = "autofix" /\ batch.pc = "loop" /\ DomainStep(o) /\ Standalone
    \/ analysis.pc = "autofix" /\ batch.pc = "loop" /\ Diagnose /\ Standalone
    \/ analysis.pc = "autofix" /\ BatchCollect
    \/ \E json_io, txt_io \in WriteOutcomes :
          analysis.pc = "autofix" /\ BatchFinish(json_io, txt_io)
    \/ AnalysisResume
    \/ AnalysisReturn

AutoFixSpec == Init /\ [][AutoFixNext]_vars

\* C17: the entries create_analysis_log passes to the validator hold no URL
\* twice; every distinct non-empty URL of french + european + colombian is
\* validated exactly once, with the title, source and country of the first
\* record, in that order of concatenation, that carries the URL.
C17_EachUrlValidatedOnce ==
    LET all == analysis.results.french \o analysis.results.european
                   \o analysis.results.colombian
        u == analysis.urls_to_validate
        first(url) == CHOOSE k \in 1..Len(all) :
                         /\ all[k].url = url
                         /\ \A x \in 1..(k - 1) : all[x].url # url
        times(url) == Cardinality({k \in 1..Len(analysis.validated) :
                                      analysis.validated[k] = url})
    IN  (analysis.pc # "idle")
        => /\ \A x, y \in 1..Len(u) : x # y => u[x].url # u[y].url
           /\ {u[k].url : k \in 1..Len(u)}
                = {all[k].url : k \in 1..Len(all)} \ {<<>>}
           /\ \A k \in 1..Len(u) :
                 /\ u[k].title = all[first(u[k].url)].title
                 /\ u[k].source = all[first(u[k].url)].source
                 /\ u[k].country = all[first(u[k].url)].perimeter
           /\ \A k \in 1..Len(all) : times(all[k].url) <= 1
           /\ times(<<>>) = 0
           /\ Len(analysis.url_validation_results) <= Len(analysis.validated)
           /\ \A k \in 1..Len(analysis.url_validation_results) :
                 /\ analysis.url_validation_results[k].url = analysis.validated[k]
                 /\ analysis.url_validation_results[k].title
                       = all[first(analysis.validated[k])].title
           /\ (analysis.pc = "done")
                  => \A k \in 1..Len(all) :
                        all[k].url # <<>> => times(all[k].url) = 1

\* C17 happens: the analysis has validated the URLs of results in which one
\* URL comes from a French, a European and a Colombian record with an other
\* URL in between
C17_Witness ==
    /\ analysis.pc = "done"
    /\ Len(analysis.all_results) = 4
    /\ analysis.all_results[1].url = Url_culture
    /\ analysis.all_results[2].url = Url_culture
    /\ analysis.all_results[3].url = Url_typo_fixed
    /\ analysis.all_results[4].url = Url_culture
    /\ Len(analysis.validated) = 2
    /\ analysis.url_validation_results[1].title = "Aide A"

\* C18: search_european_subventions returns no two records whose titles are
\* equal ignoring case: of the records with the same lowercased title the
\* first in adapter order is kept and the later ones are dropped, and the
\* kept records stay in their order.
C18_EuropeanTitlesUnique ==
    LET a == search.all_results
        r == search.adapter.european
        keep == {k \in 1..Len(a) :
                    \A x \in 1..(k - 1) : Lower(a[x].title) # Lower(a[k].title)}
        nth(n) == CHOOSE k \in keep : Cardinality({x \in keep : x <= k}) = n
    IN  (/\ Len(search.calls) >= 2
         /\ search.calls[2].adapter = "european"
         /\ search.exc = "")
        => /\ \A x, y \in 1..Len(r) :
                 x # y => Lower(r[x].title) # Lower(r[y].title)
           /\ Len(r) = Min(Cardinality(keep), search.search_limit)
           /\ \A n \in 1..Len(r) : r[n] = a[nth(n)]

\* C18 happens: the European search has dropped a record whose title differs
\* from an earlier one in the case of its letters only
C18_Witness ==
    /\ Len(search.calls) >= 2
    /\ search.calls[2].adapter = "european"
    /\ search.exc = ""
    /\ Len(search.adapter.european) < Len(search.all_results)
    /\ \E x, y \in 1..Len(search.all_results) :
          /\ x < y
          /\ search.all_results[x].title # search.all_results[y].title
          /\ Lower(search.all_results[x].title) = Lower(search.all_results[y].title)
          /\ \E n \in 1..Len(search.adapter.european) :
                search.adapter.european[n] = search.all_results[x]
          /\ \A n \in 1..Len(search.adapter.european) :
                search.adapter.european[n] # search.all_results[y]

C21_OnlyNumericAmountsCounted ==
    LET all == analysis.results.french \o analysis.results.european
                   \o analysis.results.colombian
        clean(chars) == Strip(Replace(Replace(Replace(chars, <<",">>, <<>>),
                                              <<EuroSign>>, <<>>),
                                      <<"E", "U", "R">>, <<>>))
        contributes(r) == r.amount_max.type = "str" /\ IsDigitStr(clean(r.amount_max.chars))
        expected[k \in 0..Len(all)] ==
            IF k = 0 THEN <<>>
            ELSE IF contributes(all[k])
                 THEN Append(expected[k - 1], ParseDigits(clean(all[k].amount_max.chars)))
                 ELSE expected[k - 1]
        e == expected[Len(all)]
    IN  (analysis.pc # "idle")
        => /\ analysis.amounts = e
           /\ analysis.total_funding = Sum(e)
           /\ analysis.avg_funding.num = Sum(e)
           /\ e # <<>> => analysis.avg_funding.den = Len(e)
           /\ \A k \in 1..Len(e) : /\ analysis.min_funding <= e[k]
                                   /\ e[k] <= analysis.max_funding
           /\ e # <<>> => \E x, y \in 1..Len(e) : /\ analysis.min_funding = e[x]
                                                  /\ analysis.max_funding = e[y]

\* C22: reports are written in pairs: once create_analysis_log or
\* create_url_fix_log has returned, with a path or with None, the .json
\* report has been written if and only if its complete .txt twin has been
\* written, for every input, a result set with no opportunity included.
C22_ReportsWrittenInPairs ==
    /\ (analysis.pc = "returned")
          => (analysis.json = "complete" <=> analysis.txt = "complete")
    /\ (batch.pc = "returned")
          => (batch.json = "complete" <=> batch.txt = "complete")

\* ---------------------------------------------------------------------
\* The keyword part of the export file names (save_results_to_excel_and_logs
\* and save_results_to_excel)

\* \w of Python's re on the characters of the model
IsWordChar(c) == IsAlpha(c) \/ c \in Digits \/ c = "_"

\* \s of Python's re, and what str.strip() removes
IsSpace(c) == c \in {" ", "\t"}

\* re.sub(r'[^\w\s-]', '', keywords)
RemoveSpecial(s) ==
    LET Kept(c) == IsWordChar(c) \/ IsSpace(c) \/ c = "-"
    IN  SelectSeq(s, Kept)

RECURSIVE LStripSpace(_)
LStripSpace(s) ==
    IF s # <<>> /\ IsSpace(Head(s)) THEN LStripSpace(Tail(s)) ELSE s

RECURSIVE RStripSpace(_)
RStripSpace(s) ==
    IF s # <<>> /\ IsSpace(s[Len(s)]) THEN RStripSpace(SubSeq(s, 1, Len(s) - 1)) ELSE s

\* str.strip()
StripSpace(s) == RStripSpace(LStripSpace(s))

\* re.sub(r'\s+', '_', s): every maximal run of whitespace becomes one "_"
RECURSIVE UnderscoreSpaces(_)
UnderscoreSpaces(s) ==
    IF s = <<>> THEN <<>>
    ELSE IF IsSpace(Head(s)) THEN <<"_">> \o UnderscoreSpaces(LStripSpace(s))
    ELSE <<Head(s)>> \o UnderscoreSpaces(Tail(s))

MaxSlugLen == 30

Truncate_NoCut(s) == s

\* clean_keywords[:30] if len(clean_keywords) > 30 else clean_keywords
Truncate(s) == IF Len(s) > MaxSlugLen THEN SubSeq(s, 1, MaxSlugLen) ELSE s

CleanKeywords(keywords) ==
    Truncate(UnderscoreSpaces(StripSpace(RemoveSpecial(keywords))))

\* search_type.lower().replace(' ', '_') + "_"
SearchTypePart(search_type) ==
    Replace(Lower(search_type), <<" ">>, <<"_">>) \o <<"_">>

\* save_results_to_excel_and_logs up to keyword_part
SaveResultsToExcelAndLogs(keywords, search_type) ==
    /\ export.pc = "idle"
    /\ export' = [pc |-> "saved_with_logs",
                  keywords |-> keywords,
                  search_type |-> search_type,
                  clean_keywords |-> IF keywords # <<>> THEN CleanKeywords(keywords) ELSE <<>>,
                  keyword_part |-> IF keywords # <<>>
                                   THEN CleanKeywords(keywords) \o <<"_">>
                                   ELSE SearchTypePart(search_type)]
    /\ UNCHANGED <<pc, original_url, fix_result, i, domain_fixes, j, calls, vcall,
                   batch, analysis, search>>

\* save_results_to_excel up to keyword_part
SaveResultsToExcel(keywords) ==
    /\ export.pc = "idle"
    /\ export' = [pc |-> "saved",
                  keywords |-> keywords,
                  search_type |-> <<>>,
                  clean_keywords |-> IF keywords # <<>> THEN CleanKeywords(keywords) ELSE <<>>,
                  keyword_part |-> IF keywords # <<>>
                                   THEN CleanKeywords(keywords) \o <<"_">>
                                   ELSE <<>>]
    /\ UNCHANGED <<pc, original_url, fix_result, i, domain_fixes, j, calls, vcall,
                   batch, analysis, search>>

\* either function returns
ExportReturn ==
    /\ export.pc # "idle"
    /\ export' = NoExport
    /\ UNCHANGED <<pc, original_url, fix_result, i, domain_fixes, j, calls, vcall,
                   batch, analysis, search>>

RECURSIVE Repeat(_, _)
Repeat(c, n) == IF n = 0 THEN <<>> ELSE <<c>> \o Repeat(c, n - 1)

\* the keywords the user typed: a head that brings the text close to the
\* length limit, then up to MaxKeywordTail characters of every kind
MaxKeywordTail == 2

KeywordChars == {"a", "Z", "7", "_", "-", " ", "\t", "!", "/"}

KeywordHeads ==
    {<<>>, Repeat("a", 29), Repeat("a", 28) \o <<" ">>, <<" ", "!">> \o Repeat("b", 27)}

KeywordTails ==
    UNION {[1..n -> KeywordChars] : n \in 0..MaxKeywordTail}

KeywordInputs == {h \o t : h \in KeywordHeads, t \in KeywordTails}

SearchTypes == {<<"s", "e", "a", "r", "c", "h">>, <<"E", "U", " ", "o", "n", "l", "y">>}

ExportNext ==
    \/ \E keywords \in KeywordInputs, search_type \in SearchTypes :
            SaveResultsToExcelAndLogs(keywords, search_type)
    \/ \E keywords \in KeywordInputs : SaveResultsToExcel(keywords)
    \/ ExportReturn

ExportSpec == Init /\ [][ExportNext]_vars

IsSlugChar(c) == IsAlpha(c) \/ c \in Digits \/ c = "_"

\* C23 (as stated): when keywords are supplied, the keyword slug in the
\* export file names has only alphanumeric characters and underscores and
\* is at most 30 characters long
C23_SlugAlnumUnderscore ==
    (export.pc # "idle" /\ export.keywords # <<>>)
        => /\ \A k \in 1..Len(export.clean_keywords) : IsSlugChar(export.clean_keywords[k])
           /\ Len(export.clean_keywords) <= 30

\* C23 (amended): when keywords are supplied, the keyword slug has only
\* alphanumeric characters, underscores and hyphens, is at most 30
\* characters long, and keyword_part is the slug followed by "_"
C23_SlugAlnumUnderscoreHyphen ==
    (export.pc # "idle" /\ export.keywords # <<>>)
        => /\ \A k \in 1..Len(export.clean_keywords) :
                  IsSlugChar(export.clean_keywords[k]) \/ export.clean_keywords[k] = "-"
           /\ Len(export.clean_keywords) <= 30
           /\ export.keyword_part = export.clean_keywords \o <<"_">>

\* keywords longer than the limit were cut to it, and the slug ends with the
\* hyphen the user typed
C23_Witness ==
    /\ export.pc # "idle"
    /\ Len(export.keywords) > 30
    /\ Len(export.clean_keywords) = 30
    /\ export.clean_keywords[30] = "-"

\* C24: no exception escapes the report writers: a failure while writing
\* makes the writer return None, and create_url_fix_log returning None does
\* not abort create_analysis_log, which still returns its own path
C24_WritersReturnNoneOnFailure ==
    /\ analysis.pc # "raised"
    /\ (analysis.pc = "returned" /\ ~(analysis.json = "complete" /\ analysis.txt = "complete"))
          => analysis.returned = None
    /\ (batch.pc = "returned" /\ ~(batch.json = "complete" /\ batch.txt = "complete"))
          => batch.returned = None
    /\ (analysis.pc = "returned" /\ batch.pc = "returned")
          => /\ analysis.returned = "log_path"
             /\ analysis.fix_log_path = batch.returned

\* the repair batch failed to write its log and returned None, and
\* create_analysis_log has returned its path all the same
C24_Witness ==
    /\ analysis.pc = "returned"
    /\ batch.pc = "returned"
    /\ batch.json = "partial"
    /\ batch.returned = None
    /\ analysis.returned = "log_path"

\* C25: the FixResult attempt_url_fix returns has final_status "Already
\* Working", "Fixed" or "Not Fixed", and the status agrees with the attempt
\* history: "Fixed" exactly when the last attempt worked, is not the
\* original URL, and working_url and fix_strategy are its URL and strategy;
\* "Already Working" exactly when working_url is the original URL and
\* fix_strategy is None; "Not Fixed" exactly when working_url and
\* fix_strategy are None and no recorded attempt worked
C25_FinalStatusMatchesHistory ==
    LET attempts == fix_result.fix_attempts
        n == Len(attempts)
    IN  pc = "done" =>
            /\ fix_result.final_status \in {"Already Working", "Fixed", "Not Fixed"}
            /\ fix_result.final_status = "Fixed"
                  <=> /\ n >= 1
                      /\ attempts[n].working
                      /\ attempts[n].strategy # "Original URL"
                      /\ attempts[n].url # original_url
                      /\ fix_result.working_url = attempts[n].url
                      /\ fix_result.fix_strategy = attempts[n].strategy
            /\ fix_result.final_status = "Already Working"
                  <=> /\ fix_result.working_url = original_url
                      /\ fix_result.fix_strategy = None
            /\ fix_result.final_status = "Not Fixed"
                  <=> /\ fix_result.working_url = NoneUrl
                      /\ fix_result.fix_strategy = None
                      /\ \A k \in 1..n : ~attempts[k].working

\* a repair returned "Fixed" by a domain-specific candidate after every
\* generic candidate failed
C25_Witness ==
    /\ pc = "done"
    /\ fix_result.final_status = "Fixed"
    /\ fix_result.fix_strategy = "Domain-specific fix"
    /\ Len(fix_result.fix_attempts) >= 3

\* C26: the issue-diagnosis pass of attempt_url_fix adds issues only while
\* the result is still "Not Fixed", makes no validation call, adds no fix
\* attempt and changes no other field; a returned "Fixed" or "Already
\* Working" result has no issue, and a returned "Not Fixed" result reports
\* "Multiple fix strategies failed" exactly when it holds more than 5 attempts
C26_DiagnosisOnly ==
    /\ [](pc = "done" =>
            /\ fix_result.final_status \in {"Fixed", "Already Working"}
                  => fix_result.issues_found = <<>>
            /\ fix_result.final_status = "Not Fixed"
                  => ((\E k \in 1..Len(fix_result.issues_found) :
                           fix_result.issues_found[k] = "Multiple fix strategies failed")
                      <=> Len(fix_result.fix_attempts) > 5))
    /\ [][(pc = "diagnose") =>
             /\ pc' = "done"
             /\ calls' = calls
             /\ vcall' = vcall
             /\ fix_result' = [fix_result EXCEPT !.issues_found = fix_result'.issues_found]
             /\ (fix_result'.issues_found # fix_result.issues_found
                    => fix_result.final_status = "Not Fixed")]_vars

\* a repair returned "Not Fixed" with exactly six attempts and the issue
\* "Multiple fix strategies failed"
C26_Witness ==
    /\ pc = "done"
    /\ fix_result.final_status = "Not Fixed"
    /\ Len(fix_result.fix_attempts) = 6
    /\ \E k \in 1..Len(fix_result.issues_found) :
           fix_result.issues_found[k] = "Multiple fix strategies failed"

\* C27: create_analysis_log validates the deduplicated URLs one by one in
\* the order of their first appearance in french + european + colombian;
\* every validation result is in exactly one of working_urls and broken_urls,
\* the one its is_working flag names, both lists keep the validation order,
\* and working_count + broken_count = total_urls_tested
C27_ValidatedInOrderAndPartitioned ==
    LET all == analysis.results.french \o analysis.results.european
                   \o analysis.results.colombian
        u == analysis.urls_to_validate
        tested == analysis.url_validation_results
        first(url) == CHOOSE k \in 1..Len(all) :
                         /\ all[k].url = url
                         /\ \A x \in 1..(k - 1) : all[x].url # url
        Working(v) == v.is_working
        Broken(v) == ~v.is_working
    IN  (analysis.pc # "idle")
        => /\ \A x, y \in 1..Len(u) : x < y => first(u[x].url) < first(u[y].url)
           /\ Len(tested) <= Len(u)
           /\ \A k \in 1..Len(tested) : tested[k].url = u[k].url
           /\ analysis.pc \in {"done", "json", "written", "autofix"} => Len(tested) = Len(u)
           /\ analysis.working_urls = SelectSeq(tested, Working)
           /\ analysis.broken_urls = SelectSeq(tested, Broken)
           /\ Len(analysis.working_urls) + Len(analysis.broken_urls) = Len(tested)

\* three URLs were validated, the second one works and the other two do not
C27_Witness ==
    /\ analysis.pc = "done"
    /\ Len(analysis.url_validation_results) = 3
    /\ ~analysis.url_validation_results[1].is_working
    /\ analysis.url_validation_results[2].is_working
    /\ ~analysis.url_validation_results[3].is_working
    /\ Len(analysis.broken_urls) = 2
    /\ analysis.broken_urls[2].url = analysis.urls_to_validate[3].url

\* C28: create_analysis_log starts the repair batch only when the caller
\* asked for auto-fix and at least one URL was classified broken; the batch
\* receives exactly the broken URLs, none of them classified working; and
\* it starts only after every URL was validated and both files of the
\* analysis report were written
C28_RepairOnlyBrokenAfterReport ==
    /\ [](batch.pc # "idle" =>
            LET tested == analysis.url_validation_results
                Broken(v) == ~v.is_working
            IN  /\ analysis.pc \in {"autofix", "returned"}
                /\ analysis.auto_fix_urls
                /\ Len(analysis.broken_urls) >= 1
                /\ batch.broken_urls = analysis.broken_urls
                /\ batch.broken_urls = SelectSeq(tested, Broken)
                /\ \A k \in 1..Len(analysis.working_urls) :
                       \A x \in 1..Len(batch.broken_urls) :
                           batch.broken_urls[x].url # analysis.working_urls[k].url
                /\ Len(tested) = Len(analysis.urls_to_validate)
                /\ analysis.json = "complete"
                /\ analysis.txt = "complete")
    /\ [][(batch.pc = "idle" /\ batch'.pc # "idle") => analysis.pc = "written"]_vars

\* the batch runs on the one broken URL of an analysis that also found a
\* working URL
C28_Witness ==
    /\ batch.pc = "loop"
    /\ analysis.pc = "autofix"
    /\ Len(analysis.working_urls) >= 1
    /\ Len(batch.broken_urls) = 1
    /\ Len(analysis.url_validation_results) >= 2

\* C29: a working_url that attempt_url_fix returns starts with "http://" or
\* "https://"; every recorded candidate that starts with neither has status
\* "Invalid URL" and working FALSE, so it is never the winning candidate
C29_WorkingUrlHasHttpScheme ==
    LET HasScheme(url) == StartsWith(url, S_http) \/ StartsWith(url, S_https)
        attempts == fix_result.fix_attempts
    IN  /\ (pc = "done" /\ fix_result.working_url # NoneUrl)
              => /\ fix_result.final_status \in {"Fixed", "Already Working"}
                 /\ HasScheme(fix_result.working_url)
        /\ (pc = "done" /\ fix_result.final_status \in {"Fixed", "Already Working"})
              => fix_result.working_url # NoneUrl
        /\ \A k \in 1..Len(attempts) :
               (attempts[k].status # "Error" /\ ~HasScheme(attempts[k].url))
                   => /\ attempts[k].status = "Invalid URL"
                      /\ ~attempts[k].working
                      /\ fix_result.working_url # attempts[k].url

\* a scheme-less original was rewritten by "Try with www" into a candidate
\* that still has no http scheme: it was recorded as "Invalid URL" and the
\* repair returned with no working URL
C29_Witness ==
    /\ pc = "done"
    /\ original_url = Url_ftp
    /\ fix_result.working_url = NoneUrl
    /\ \E k \in 2..Len(fix_result.fix_attempts) :
           /\ fix_result.fix_attempts[k].strategy = "Try with www"
           /\ ~StartsWith(fix_result.fix_attempts[k].url, S_http)
           /\ fix_result.fix_attempts[k].status = "Invalid URL"

====
